---- MODULE Spec2Model ----
(***************************************************************************)
(* Verification model of the PostgreSQL MCP server: the read-only SQL      *)
(* query guard (query-validator.js), the query execution pipeline          *)
(* (query-controller.js, query-provider.js, query-model.js) and the        *)
(* pooled database connector with its retry logic (db-connector.js).       *)
(*                                                                         *)
(* SQL text is a sequence of one-character strings, so that the regular    *)
(* expressions of the source are evaluated character by character.         *)
(***************************************************************************)
EXTENDS Integers, Sequences, FiniteSets, TLC

(***************************************************************************)
(* Bounds of the model.                                                    *)
(***************************************************************************)
\* longest SQL input, counted in lexemes of one vocabulary
MaxTokens == 4

\* most rows in a backend result
MaxRows == 3

\* largest value of config.query.maxRowsReturned tried
MaxCap == 3

\* config.rateLimit.max of the rate limiter, scaled down
RateLimitMax == 2

\* config.rateLimit.window of the rate limiter, scaled down
RateLimitWindow == 2

\* the last instant Date.now() reaches
MaxClock == 6

\* most calls of validateQuery on one text
MaxCalls == 2

\* the lexemes in a text handed to QueryProvider.executeQuery
MaxWords == 3

(***************************************************************************)
(* Characters and JavaScript string primitives.                            *)
(***************************************************************************)
LowerLetters ==
    {"a","b","c","d","e","f","g","h","i","j","k","l","m",
     "n","o","p","q","r","s","t","u","v","w","x","y","z"}

UpperLetters ==
    {"A","D","E","I","L","N","O","P","R","S","T","X"}

Digits ==
    {"0","1"}

WordChars ==
    LowerLetters \cup UpperLetters \cup Digits \cup {"_"}

\* \w of a JavaScript regular expression: [A-Za-z0-9_]
IsWordChar(c) ==
    c \in WordChars

\* \s of a JavaScript regular expression (the members that occur here)
IsSpace(c) ==
    c \in {" ", "\n", "\t", "\r"}

\* the characters that '.' does not match and at which $ matches under /m
IsLineTerminator(c) ==
    c \in {"\n", "\r"}

LowerOf ==
    [c \in UpperLetters |->
        CASE c = "A" -> "a" [] c = "D" -> "d" [] c = "E" -> "e"
          [] c = "I" -> "i" [] c = "L" -> "l" [] c = "N" -> "n"
          [] c = "O" -> "o" [] c = "P" -> "p" [] c = "R" -> "r"
          [] c = "S" -> "s" [] c = "T" -> "t" [] c = "X" -> "x"]

Lower(c) ==
    IF c \in UpperLetters THEN LowerOf[c] ELSE c

\* String.prototype.toLowerCase
ToLowerCase(s) ==
    [i \in 1..Len(s) |-> Lower(s[i])]

\* String.prototype.trim
Trim(s) ==
    LET nonSpace == {i \in 1..Len(s) : ~IsSpace(s[i])}
    IN  IF nonSpace = {} THEN <<>>
        ELSE LET first == CHOOSE i \in nonSpace : \A j \in nonSpace : i <= j
                 last  == CHOOSE i \in nonSpace : \A j \in nonSpace : j <= i
             IN  SubSeq(s, first, last)

(***************************************************************************)
(* Regular-expression building blocks.  A position p in 0..Len(s) lies     *)
(* between s[p] and s[p+1].                                                *)
(***************************************************************************)
\* \b at position p
WordBoundary(s, p) ==
    LET before == p >= 1 /\ IsWordChar(s[p])
        after  == p + 1 <= Len(s) /\ IsWordChar(s[p + 1])
    IN  before # after

\* the literal lit matches at position p, ignoring case (flag i)
LitAt(s, p, lit) ==
    /\ p + Len(lit) <= Len(s)
    /\ \A k \in 1..Len(lit) : Lower(s[p + k]) = lit[k]

\* every character of s[p+1..q] is white space
AllSpace(s, p, q) ==
    \A k \in (p + 1)..q : IsSpace(s[k])

\* every character of s[p+1..q] is matched by '.'
AllDot(s, p, q) ==
    \A k \in (p + 1)..q : ~IsLineTerminator(s[k])

\* /\bkw\b/i
MatchWord(s, kw) ==
    \E p \in 0..Len(s) :
        /\ WordBoundary(s, p)
        /\ LitAt(s, p, kw)
        /\ WordBoundary(s, p + Len(kw))

\* /\bkw\s+(o1|o2|...)/i, with a closing \b when closed is TRUE
MatchWordSpaceAlt(s, kw, objs, closed) ==
    \E p \in 0..Len(s) :
        /\ WordBoundary(s, p)
        /\ LitAt(s, p, kw)
        /\ \E q \in (p + Len(kw) + 1)..Len(s) :
              /\ AllSpace(s, p + Len(kw), q)
              /\ \E o \in objs :
                    /\ LitAt(s, q, o)
                    /\ closed => WordBoundary(s, q + Len(o))

\* /\bkw1\b.*\bkw2\b/i
MatchWordDotStarWord(s, kw1, kw2) ==
    \E p \in 0..Len(s) :
        /\ WordBoundary(s, p)
        /\ LitAt(s, p, kw1)
        /\ WordBoundary(s, p + Len(kw1))
        /\ \E q \in (p + Len(kw1))..Len(s) :
              /\ AllDot(s, p + Len(kw1), q)
              /\ WordBoundary(s, q)
              /\ LitAt(s, q, kw2)
              /\ WordBoundary(s, q + Len(kw2))

\* /^\s*kw\b/i
MatchStartWord(s, kw) ==
    \E p \in 0..Len(s) :
        /\ AllSpace(s, 0, p)
        /\ LitAt(s, p, kw)
        /\ WordBoundary(s, p + Len(kw))

\* /\bfn\s*\(/i
MatchCall(s, fn) ==
    \E p \in 0..Len(s) :
        /\ WordBoundary(s, p)
        /\ LitAt(s, p, fn)
        /\ \E q \in (p + Len(fn))..Len(s) :
              /\ AllSpace(s, p + Len(fn), q)
              /\ LitAt(s, q, <<"(">>)

(***************************************************************************)
(* The keywords of query-validator.js, as character sequences.             *)
(***************************************************************************)
W_insert ==
    <<"i","n","s","e","r","t">>

W_into ==
    <<"i","n","t","o">>

W_update ==
    <<"u","p","d","a","t","e">>

W_set ==
    <<"s","e","t">>

W_delete ==
    <<"d","e","l","e","t","e">>

W_from ==
    <<"f","r","o","m">>

W_truncate ==
    <<"t","r","u","n","c","a","t","e">>

W_table ==
    <<"t","a","b","l","e">>

W_drop ==
    <<"d","r","o","p">>

W_schema ==
    <<"s","c","h","e","m","a">>

W_database ==
    <<"d","a","t","a","b","a","s","e">>

W_index ==
    <<"i","n","d","e","x">>

W_view ==
    <<"v","i","e","w">>

W_trigger ==
    <<"t","r","i","g","g","e","r">>

W_function ==
    <<"f","u","n","c","t","i","o","n">>

W_procedure ==
    <<"p","r","o","c","e","d","u","r","e">>

W_alter ==
    <<"a","l","t","e","r">>

W_create ==
    <<"c","r","e","a","t","e">>

W_grant ==
    <<"g","r","a","n","t">>

W_revoke ==
    <<"r","e","v","o","k","e">>

W_select ==
    <<"s","e","l","e","c","t">>

W_show ==
    <<"s","h","o","w">>

W_describe ==
    <<"d","e","s","c","r","i","b","e">>

W_explain ==
    <<"e","x","p","l","a","i","n">>

W_copy ==
    <<"c","o","p","y">>

W_pg_read_file ==
    <<"p","g","_","r","e","a","d","_","f","i","l","e">>

W_pg_read_binary_file ==
    <<"p","g","_","r","e","a","d","_","b","i","n","a","r","y","_","f","i","l","e">>

W_pg_sleep ==
    <<"p","g","_","s","l","e","e","p">>

W_pg_terminate_backend ==
    <<"p","g","_","t","e","r","m","i","n","a","t","e","_","b","a","c","k","e","n","d">>


(***************************************************************************)
(* JavaScript values that can arrive as the sql argument.                  *)
(***************************************************************************)
JsString(s) ==
    [type |-> "string", chars |-> s]

JsNull ==
    [type |-> "null", chars |-> <<>>]

JsUndefined ==
    [type |-> "undefined", chars |-> <<>>]

\* a number, written by its digits
JsNumber(digits) ==
    [type |-> "number", chars |-> digits]

JsObject ==
    [type |-> "object", chars |-> <<>>]

\* ToBoolean: the operand of '!'
Truthy(v) ==
    CASE v.type = "string" -> v.chars # <<>>
      [] v.type = "number" -> v.chars # <<"0">>
      [] v.type = "object" -> TRUE
      [] OTHER -> FALSE

(***************************************************************************)
(* QueryValidator (query-validator.js).                                    *)
(***************************************************************************)
ObjectKinds ==
    {W_table, W_schema, W_database, W_index, W_view, W_trigger,
     W_function, W_procedure}

\* some pattern of the writeOperations list matches
writeOperations(n) ==
    \/ MatchWordSpaceAlt(n, W_insert, {W_into}, TRUE)
    \/ MatchWordDotStarWord(n, W_update, W_set)
    \/ MatchWordSpaceAlt(n, W_delete, {W_from}, TRUE)
    \/ MatchWordSpaceAlt(n, W_truncate, {W_table}, TRUE)
    \/ MatchWordSpaceAlt(n, W_drop, ObjectKinds, FALSE)
    \/ MatchWordSpaceAlt(n, W_alter, ObjectKinds, FALSE)
    \/ MatchWordSpaceAlt(n, W_create, ObjectKinds, FALSE)
    \/ MatchWord(n, W_grant)
    \/ MatchWord(n, W_revoke)

\* the readOperations list reduced to its first pattern
readOperations_SelectOnly(n) ==
    MatchStartWord(n, W_select)

\* some pattern of the readOperations list matches
readOperations(n) ==
    \/ MatchStartWord(n, W_select)
    \/ MatchStartWord(n, W_show)
    \/ MatchStartWord(n, W_describe)
    \/ MatchStartWord(n, W_explain)

\* isReadOnly ending with 'return true' for a statement it cannot classify
isReadOnly_DefaultTrue(sql) ==
    IF ~Truthy(sql) \/ sql.type # "string"
    THEN FALSE
    ELSE LET normalizedSql == ToLowerCase(Trim(sql.chars))
         IN  IF writeOperations(normalizedSql) THEN FALSE
             ELSE TRUE

isReadOnly(sql) ==
    IF ~Truthy(sql) \/ sql.type # "string"
    THEN FALSE
    ELSE LET normalizedSql == ToLowerCase(Trim(sql.chars))
         IN  IF writeOperations(normalizedSql) THEN FALSE
             ELSE IF readOperations(normalizedSql) THEN TRUE
             ELSE FALSE

\* /--.*$/ without the flag m: $ matches at the end of the text only
MatchComment_NoMultiline(s) ==
    \E p \in 0..Len(s) :
        /\ LitAt(s, p, <<"-", "-">>)
        /\ AllDot(s, p + 2, Len(s))

\* /--.*$/m
MatchComment(s) ==
    \E p \in 0..Len(s) :
        /\ LitAt(s, p, <<"-", "-">>)
        /\ \E q \in (p + 2)..Len(s) :
              /\ AllDot(s, p + 2, q)
              /\ q = Len(s) \/ IsLineTerminator(s[q + 1])

\* /;\w+/i: the white space after the semicolon is forgotten
MatchMultipleStatements_NoSpace(s) ==
    \E p \in 0..Len(s) :
        /\ LitAt(s, p, <<";">>)
        /\ p + 2 <= Len(s)
        /\ IsWordChar(s[p + 2])

\* /;\s*\w+/i
MatchMultipleStatements(s) ==
    \E p \in 0..Len(s) :
        /\ LitAt(s, p, <<";">>)
        /\ \E q \in (p + 1)..Len(s) :
              /\ AllSpace(s, p + 1, q)
              /\ q + 1 <= Len(s)
              /\ IsWordChar(s[q + 1])

\* some pattern of the unsafeFunctions list matches
unsafeFunctions(s) ==
    \/ MatchCall(s, W_copy)
    \/ MatchCall(s, W_pg_read_file)
    \/ MatchCall(s, W_pg_read_binary_file)
    \/ MatchCall(s, W_pg_sleep)
    \/ MatchCall(s, W_pg_terminate_backend)

MsgEmpty ==
    "Query cannot be empty"

MsgReadOnly ==
    "Only read-only queries are allowed"

MsgComments ==
    "SQL comments are not allowed"

MsgMultiple ==
    "Multiple SQL statements are not allowed"

MsgUnsafe ==
    "Query contains potentially unsafe functions"

\* validateQuery returning at the first violated check
validateQuery_ShortCircuit(sql) ==
    IF ~Truthy(sql) \/ sql.type # "string"
    THEN [isValid |-> FALSE, errors |-> <<MsgEmpty>>]
    ELSE IF ~isReadOnly(sql)
         THEN [isValid |-> FALSE, errors |-> <<MsgReadOnly>>]
    ELSE IF MatchComment(sql.chars)
         THEN [isValid |-> FALSE, errors |-> <<MsgComments>>]
    ELSE IF MatchMultipleStatements(sql.chars)
         THEN [isValid |-> FALSE, errors |-> <<MsgMultiple>>]
    ELSE IF unsafeFunctions(sql.chars)
         THEN [isValid |-> FALSE, errors |-> <<MsgUnsafe>>]
    ELSE [isValid |-> TRUE, errors |-> <<>>]

validateQuery(sql) ==
    IF ~Truthy(sql) \/ sql.type # "string"
    THEN [isValid |-> FALSE, errors |-> <<MsgEmpty>>]
    ELSE LET e1 == IF ~isReadOnly(sql) THEN <<MsgReadOnly>> ELSE <<>>
             e2 == IF MatchComment(sql.chars)
                   THEN Append(e1, MsgComments) ELSE e1
             e3 == IF MatchMultipleStatements(sql.chars)
                   THEN Append(e2, MsgMultiple) ELSE e2
             errors == IF unsafeFunctions(sql.chars)
                       THEN Append(e3, MsgUnsafe) ELSE e3
         IN  [isValid |-> Len(errors) = 0, errors |-> errors]

\* the characters of s at the indices of keep, in order
KeepIndices(s, keep) ==
    LET F[n \in 0..Len(s)] ==
            IF n = 0 THEN <<>>
            ELSE IF n \in keep THEN Append(F[n - 1], s[n]) ELSE F[n - 1]
    IN  F[Len(s)]

\* s.replace(/--.*$/m, ''): only the first '--' is removed up to the end of
\* its line
RemoveComments_FirstOnly(s) ==
    LET starts == {j \in 1..Len(s) : LitAt(s, j - 1, <<"-", "-">>)}
        inComment(i) ==
            /\ starts # {}
            /\ LET j == CHOOSE k \in starts : \A m \in starts : k <= m
               IN  /\ j <= i
                   /\ \A k \in j..i : ~IsLineTerminator(s[k])
    IN  KeepIndices(s, {i \in 1..Len(s) : ~inComment(i)})

\* s.replace(/--.*$/mg, ''): every '--' is removed up to the end of its line
RemoveComments(s) ==
    LET inComment(i) ==
            \E j \in 1..i :
                /\ LitAt(s, j - 1, <<"-", "-">>)
                /\ \A k \in j..i : ~IsLineTerminator(s[k])
    IN  KeepIndices(s, {i \in 1..Len(s) : ~inComment(i)})

\* s.split(';')[0]
BeforeFirstSemicolon(s) ==
    LET semis == {i \in 1..Len(s) : s[i] = ";"}
    IN  IF semis = {} THEN s
        ELSE SubSeq(s, 1, (CHOOSE i \in semis : \A j \in semis : i <= j) - 1)

sanitizeQuery(sql) ==
    IF ~Truthy(sql) \/ sql.type # "string"
    THEN <<>>
    ELSE Trim(BeforeFirstSemicolon(RemoveComments(sql.chars)))

(***************************************************************************)
(* Bind parameters and QueryProvider.validateQueryInput of the mcp-psql    *)
(* provider (providers/query-provider.js).                                 *)
(***************************************************************************)
\* an array of parameter values
JsArray(elems) ==
    [type |-> "array", elems |-> elems]

\* s contains lit, compared exactly
Includes(s, lit) ==
    \E p \in 0..(Len(s) - Len(lit)) :
        \A k \in 1..Len(lit) : s[p + k] = lit[k]

\* /a\s+b/i
MatchLitSpaceLit(s, a, b) ==
    \E p \in 0..Len(s) :
        /\ LitAt(s, p, a)
        /\ \E q \in (p + Len(a) + 1)..Len(s) :
              /\ AllSpace(s, p + Len(a), q)
              /\ LitAt(s, q, b)

\* /update\s+.*\s+set/i
MatchUpdateSet(s) ==
    \E p \in 0..Len(s) :
        /\ LitAt(s, p, W_update)
        /\ \E q \in (p + Len(W_update) + 1)..Len(s) :
              /\ AllSpace(s, p + Len(W_update), q)
              /\ \E r \in q..Len(s) : \E t \in (r + 1)..Len(s) :
                    /\ AllDot(s, q, r)
                    /\ AllSpace(s, r, t)
                    /\ LitAt(s, t, W_set)

\* /\/\*.*\*\//
MatchBlockComment(s) ==
    \E p \in 0..Len(s) :
        /\ LitAt(s, p, <<"/", "*">>)
        /\ \E q \in (p + 2)..Len(s) :
              /\ AllDot(s, p + 2, q)
              /\ LitAt(s, q, <<"*", "/">>)

\* some pattern of the dangerousPatterns list matches the string parameter
dangerousPatterns(s) ==
    \/ Includes(s, <<"-", "-">>)
    \/ Includes(s, <<";">>)
    \/ MatchBlockComment(s)
    \/ MatchLitSpaceLit(s, <<"u","n","i","o","n">>, W_select)
    \/ MatchLitSpaceLit(s, W_insert, W_into)
    \/ MatchUpdateSet(s)
    \/ MatchLitSpaceLit(s, W_delete, W_from)
    \/ MatchLitSpaceLit(s, W_drop, W_table)

\* the callback of params.forEach throws for this parameter
ParamRejected(param) ==
    \/ param.type \in {"null", "undefined"}
    \/ param.type \in {"object", "array"}
    \/ param.type = "string" /\ dangerousPatterns(param.chars)

dangerousOperations ==
    {W_insert, W_update, W_delete, W_drop, W_create, W_alter, W_truncate}

\* the message of the ValidationError thrown, "ok" when nothing is thrown
validateQueryInput(query, params) ==
    IF ~Truthy(query) \/ query.type # "string"
    THEN "Query must be a non-empty string"
    ELSE IF params.type # "array"
    THEN "Parameters must be an array"
    ELSE IF \E i \in 1..Len(params.elems) : ParamRejected(params.elems[i])
    THEN "Parameter rejected"
    ELSE IF Includes(ToLowerCase(query.chars), <<";">>)
    THEN "Multiple statements are not allowed"
    ELSE IF \E op \in dangerousOperations :
                Includes(ToLowerCase(query.chars), op)
    THEN "Write operations are not allowed"
    ELSE "ok"

(***************************************************************************)
(* State.                                                                  *)
(***************************************************************************)
VARIABLES
    vsql,           \* validator: the value passed as sql
    vop,            \* validator: the method that was called, "none" before
    vout,           \* validator: what the method returned
    build,          \* which query-provider.js and db-connector.js are loaded
    pc,             \* per request handler: where the handler is suspended
    route,          \* per request handler: "query" or "explain"
    body,           \* per request handler: sql and params of the request
    stmt,           \* per request handler: the text handed to the model
    acquired,       \* per request handler: connections taken from the pool
    released,       \* per request handler: connections given back
    sent,           \* per request handler: statements sent to the database
    result,         \* per request handler: the value or error on its way up
    attempts,       \* per request handler: pool.query calls of the connector
    delays,         \* per request handler: retry delays waited
    script,         \* per request handler: what the backend will answer
    checkedOut,     \* pool: connections currently checked out
    retryAttempts,  \* DatabaseConnector.retryAttempts
    uin,            \* a function on its own: the argument
    uop,            \* a function on its own: the function called
    uout,           \* a function on its own: the value returned
    rateLimits,     \* SecurityMiddleware.rateLimits: client -> limitInfo
    clock,          \* Date.now()
    admitted,       \* per client: requests let through since the last reset
    served,         \* how the last request left the rate limiter
    verrors,        \* the errors array of the last validateQuery call
    vfirst,         \* per sql: what validateQuery returned the first time
    controller,     \* BrowserController: browser, context, page, isClosing
    calls,          \* per caller: the launch or close call it is in
    retryOp         \* the navigate call and its retryOperation

validatorVars ==
    <<vsql, vop, vout>>

requestVars ==
    <<pc, route, body, stmt, acquired, released, sent, result, attempts,
      delays, script>>

unitVars ==
    <<uin, uop, uout>>

limiterVars ==
    <<rateLimits, clock, admitted, served>>

repeatVars ==
    <<verrors, vfirst>>

browserVars ==
    <<controller, calls, retryOp>>

otherVars ==
    <<unitVars, limiterVars, repeatVars, browserVars>>

vars ==
    <<vsql, vop, vout, build, pc, route, body, stmt, acquired, released,
      sent, result, attempts, delays, script, checkedOut, retryAttempts,
      uin, uop, uout, rateLimits, clock, admitted, served, verrors, vfirst,
      controller, calls, retryOp>>

(***************************************************************************)
(* Configuration and sample requests.                                      *)
(***************************************************************************)
\* config.db.poolSize, scaled down
PoolSize == 1

\* DatabaseConnector.maxRetries
MaxRetries == 3

\* config.query.maxExecutionTime
MaxExecutionTime == 30000

\* request handlers that can be in flight at the same time
Handlers ==
    {"h1", "h2"}

\* the two query-provider.js of the repository: "root" exports an instance
\* and validates with QueryValidator; "psql" (mcp-psql/providers) exports the
\* class with validateQueryInput and is taken as instantiated around the
\* exported QueryModel and mounted behind the same controller
Providers ==
    {"root", "psql"}

\* the two db-connector.js of the repository: "getClient" has getClient and
\* a query that rethrows; "retry" has no getClient and a query that retries
Connectors ==
    {"getClient", "retry"}

SelectOne ==
    W_select \o <<" ", "1">>

SelectThenDrop ==
    SelectOne \o <<";", " ">> \o W_drop \o <<" ">> \o W_table \o <<" ", "t">>

SqlSamples ==
    {JsString(SelectOne), JsString(SelectThenDrop), JsUndefined}

ParamSamples ==
    {JsUndefined,
     JsArray(<<>>),
     JsArray(<<JsNumber(<<"1">>)>>),
     JsArray(<<JsString(<<"a">>)>>),
     JsArray(<<JsString(<<"-", "-">>)>>),
     JsArray(<<JsNull>>),
     JsArray(<<JsUndefined>>),
     JsArray(<<JsObject>>),
     JsArray(<<JsArray(<<>>)>>),
     JsArray(<<JsNumber(<<"1">>), JsNull>>)}

\* handler h1 serves the request under study, handler h2 a well-formed
\* request that is in flight at the same time; the explain route, which
\* does not look at params, is tried with fewer of them
BodiesOf(h, r) ==
    IF h = "h1"
    THEN [sql : SqlSamples,
          params : IF r = "query" THEN ParamSamples
                   ELSE {JsUndefined, JsArray(<<>>)}]
    ELSE {[sql |-> JsString(SelectOne), params |-> JsArray(<<>>)]}

(***************************************************************************)
(* Results and errors.                                                     *)
(***************************************************************************)
\* name: the class of the error; code: error.code of a driver error; kind:
\* the taxonomy code of an application error; detail: the message of the
\* error that an application error wraps
NoResult ==
    [success |-> FALSE, name |-> "none", code |-> <<>>, kind |-> "",
     message |-> "", detail |-> ""]

Success ==
    [success |-> TRUE, name |-> "result", code |-> <<>>, kind |-> "",
     message |-> "", detail |-> ""]

Failure(name, code, kind, message, detail) ==
    [success |-> FALSE, name |-> name, code |-> code, kind |-> kind,
     message |-> message, detail |-> detail]

ValidationError(message) ==
    Failure("ValidationError", <<>>, "VALIDATION_ERROR", message, "")

\* new CustomError(message, type, 500, { error: cause })
CustomError(message, type, cause) ==
    Failure("CustomError", <<>>, type, message, cause)

\* an error raised by the pg driver: error.code and error.message
DriverError(code, message) ==
    Failure("DriverError", code, "", message, "")

MsgStatementTimeout ==
    "canceling statement due to statement timeout"

ErrSyntax ==
    DriverError(<<"4","2","6","0","1">>, "syntax error")

ErrPermission ==
    DriverError(<<"4","2","5","0","1">>, "permission denied")

ErrStatementTimeout ==
    DriverError(<<"5","7","0","1","4">>, MsgStatementTimeout)

ErrRefused ==
    DriverError(<<"E","C","O","N","N","R","E","F","U","S","E","D">>,
                "connect ECONNREFUSED")

ErrTimedOut ==
    DriverError(<<"E","T","I","M","E","D","O","U","T">>, "connect ETIMEDOUT")

ErrAuth ==
    DriverError(<<"2","8","P","0","1">>, "password authentication failed")

ErrNoCode ==
    DriverError(<<>>, "Connection terminated unexpectedly")

\* what a statement can fail with
DbErrors ==
    {ErrSyntax, ErrPermission, ErrStatementTimeout, ErrRefused, ErrTimedOut,
     ErrAuth, ErrNoCode}

\* what pool.connect can fail with
ConnectErrors ==
    {ErrRefused, ErrTimedOut, ErrAuth}

\* error.message.includes('statement timeout'): of the messages above only
\* MsgStatementTimeout contains the signature
HasTimeoutSignature(message) ==
    message = MsgStatementTimeout

\* a statement as the database receives it
SetTimeoutStatement(timeout) ==
    [kind |-> "set", text |-> <<>>, params |-> JsUndefined,
     timeout |-> timeout]

UserStatement(text, params) ==
    [kind |-> "user", text |-> text, params |-> params, timeout |-> 0]

\* `EXPLAIN (FORMAT JSON, ANALYZE, BUFFERS, VERBOSE) ${sql}`
ExplainStatement(text, params) ==
    [kind |-> "explain", text |-> text, params |-> params, timeout |-> 0]

(***************************************************************************)
(* The request handlers.                                                   *)
(***************************************************************************)
NoBody ==
    [sql |-> JsUndefined, params |-> JsUndefined]

ServerAtRest ==
    /\ pc = [h \in Handlers |-> "idle"]
    /\ route = [h \in Handlers |-> "none"]
    /\ body = [h \in Handlers |-> NoBody]
    /\ stmt = [h \in Handlers |-> <<>>]
    /\ acquired = [h \in Handlers |-> 0]
    /\ released = [h \in Handlers |-> 0]
    /\ sent = [h \in Handlers |-> <<>>]
    /\ result = [h \in Handlers |-> NoResult]
    /\ attempts = [h \in Handlers |-> 0]
    /\ delays = [h \in Handlers |-> 0]
    /\ script = [h \in Handlers |-> <<>>]
    /\ checkedOut = 0
    /\ retryAttempts = 0

\* no function has been called on its own
NoValue ==
    [kind |-> "none"]

UnitAtRest ==
    /\ uin = NoValue
    /\ uop = "none"
    /\ uout = NoValue

\* the client identifiers (req.ip) that send requests
Clients ==
    {"ip1", "ip2"}

\* this.rateLimits.get(clientIp) of a client never seen
NoLimitInfo ==
    [present |-> FALSE, count |-> 0, resetTime |-> 0]

\* the last request the rate limiter saw, with the client's entry as the
\* request found it
NoRequest ==
    [client |-> "none", outcome |-> "none", at |-> 0,
     before |-> NoLimitInfo]

\* no request has passed the rate limiter: this.rateLimits is not yet set
LimiterAtRest ==
    /\ rateLimits = [c \in Clients |-> NoLimitInfo]
    /\ clock = 0
    /\ admitted = [c \in Clients |-> 0]
    /\ served = NoRequest

\* the texts validated again and again
RepeatInputs ==
    {JsString(SelectOne), JsString(SelectThenDrop),
     JsString(W_drop \o <<" ", "-", "-">>), JsString(<<>>), JsNull}

\* no call of validateQuery on this sql yet
NoValidation ==
    [isValid |-> FALSE, errors |-> <<>>, calls |-> 0]

RepeatAtRest ==
    /\ verrors = <<>>
    /\ vfirst = [s \in RepeatInputs |-> NoValidation]

\* the BrowserController as its constructor leaves it
NewController ==
    [browser |-> "null", context |-> "null", page |-> "null",
     isClosing |-> FALSE]

\* the callers of launch and close
Callers ==
    {"c1", "c2"}

\* a caller that is in no call
NoCall ==
    [op |-> "none", pc |-> "idle", outcome |-> "none"]

\* no navigate call
NoRetry ==
    [pc |-> "idle", attempt |-> 0, invocations |-> 0, waits |-> <<>>,
     errors |-> <<>>, outcome |-> "none", value |-> "none"]

BrowserAtRest ==
    /\ controller = NewController
    /\ calls = [c \in Callers |-> NoCall]
    /\ retryOp = NoRetry

OthersAtRest ==
    UnitAtRest /\ LimiterAtRest /\ RepeatAtRest /\ BrowserAtRest

\* the handler leaves its async function with r: the controller answers
Goto(h, label, r) ==
    /\ pc' = [pc EXCEPT ![h] = label]
    /\ result' = [result EXCEPT ![h] = r]

\* router.post('/query') and router.post('/query/explain') up to the call of
\* the provider: const { sql, params = {} } = req.body, the check of sql and
\* validateQuery
Controller(h, b, r) ==
    /\ pc[h] = "idle"
    /\ route' = [route EXCEPT ![h] = r]
    /\ body' = [body EXCEPT ![h] =
                  [sql |-> b.sql,
                   params |-> IF b.params.type = "undefined"
                              THEN JsObject ELSE b.params]]
    /\ IF ~Truthy(b.sql)
       THEN Goto(h, "responded", ValidationError("SQL query is required"))
       ELSE IF ~validateQuery(b.sql).isValid
       THEN Goto(h, "responded", ValidationError("Invalid SQL query"))
       ELSE Goto(h, "provider", NoResult)
    /\ UNCHANGED otherVars
    /\ UNCHANGED <<validatorVars, build, stmt, acquired, released, sent,
                   attempts, delays, script, checkedOut, retryAttempts>>

PostQuery(h) ==
    \E b \in BodiesOf(h, "query") : Controller(h, b, "query")

PostQueryExplain(h) ==
    \E b \in BodiesOf(h, "explain") : Controller(h, b, "explain")

\* QueryModel.executeQuery up to its first await: dbConnector.getClient(),
\* which the connector with the retry logic does not have
CallModelExecuteQuery(h, text) ==
    /\ stmt' = [stmt EXCEPT ![h] = text]
    /\ IF build.connector = "getClient"
       THEN Goto(h, "getClient", NoResult)
       ELSE Goto(h, "modelSettled",
                 Failure("TypeError", <<>>, "",
                         "dbConnector.getClient is not a function", ""))

\* QueryProvider.executeQuery of the root provider, up to the model
ProviderExecuteQuery(h) ==
    /\ pc[h] = "provider"
    /\ route[h] = "query"
    /\ build.provider = "root"
    /\ IF ~validateQuery(body[h].sql).isValid
       THEN /\ Goto(h, "responded", ValidationError("Invalid query"))
            /\ UNCHANGED stmt
       ELSE CallModelExecuteQuery(h, sanitizeQuery(body[h].sql))
    /\ UNCHANGED otherVars
    /\ UNCHANGED <<validatorVars, build, route, body, acquired, released,
                   sent, attempts, delays, script, checkedOut, retryAttempts>>

\* the mcp-psql provider calling the model without validateQueryInput
ProviderExecuteQueryPsql_NoGuard(h) ==
    /\ pc[h] = "provider"
    /\ route[h] = "query"
    /\ build.provider = "psql"
    /\ CallModelExecuteQuery(h, body[h].sql.chars)
    /\ UNCHANGED otherVars
    /\ UNCHANGED <<validatorVars, build, route, body, acquired, released,
                   sent, attempts, delays, script, checkedOut, retryAttempts>>

\* QueryProvider.executeQuery of the mcp-psql provider, up to the model
ProviderExecuteQueryPsql(h) ==
    /\ pc[h] = "provider"
    /\ route[h] = "query"
    /\ build.provider = "psql"
    /\ LET thrown == validateQueryInput(body[h].sql, body[h].params)
       IN  IF thrown # "ok"
           THEN /\ Goto(h, "responded", ValidationError(thrown))
                /\ UNCHANGED stmt
           ELSE CallModelExecuteQuery(h, body[h].sql.chars)
    /\ UNCHANGED otherVars
    /\ UNCHANGED <<validatorVars, build, route, body, acquired, released,
                   sent, attempts, delays, script, checkedOut, retryAttempts>>

\* DatabaseConnector.getClient: pool.connect() gives a free connection
GetClientResolved(h) ==
    /\ pc[h] = "getClient"
    /\ checkedOut < PoolSize
    /\ checkedOut' = checkedOut + 1
    /\ acquired' = [acquired EXCEPT ![h] = @ + 1]
    /\ pc' = [pc EXCEPT ![h] = "setTimeout"]
    /\ UNCHANGED otherVars
    /\ UNCHANGED <<validatorVars, build, route, body, stmt, released, sent,
                   result, attempts, delays, script, retryAttempts>>

\* DatabaseConnector.getClient: pool.connect() fails; executeQuery throws
\* before its try block
GetClientRejected(h) ==
    /\ pc[h] = "getClient"
    /\ \E e \in ConnectErrors : Goto(h, "modelSettled", e)
    /\ UNCHANGED otherVars
    /\ UNCHANGED <<validatorVars, build, route, body, stmt, acquired,
                   released, sent, attempts, delays, script, checkedOut,
                   retryAttempts>>

\* the finally block of QueryModel.executeQuery: client.release()
Release(h) ==
    /\ checkedOut' = checkedOut - 1
    /\ released' = [released EXCEPT ![h] = @ + 1]

\* QueryModel.executeQuery going on to the user query although SET
\* statement_timeout failed
SetTimeoutSettled_IgnoreFailure(h) ==
    /\ pc[h] = "setTimeout"
    /\ sent' = [sent EXCEPT ![h] =
                  Append(@, SetTimeoutStatement(MaxExecutionTime))]
    /\ \E r \in {NoResult} \cup DbErrors : Goto(h, "clientQuery", r)
    /\ UNCHANGED <<checkedOut, released>>
    /\ UNCHANGED otherVars
    /\ UNCHANGED <<validatorVars, build, route, body, stmt, acquired,
                   attempts, delays, script, retryAttempts>>

\* QueryModel.executeQuery without finally: a failing SET statement_timeout
\* leaves without client.release()
SetTimeoutSettled_NoRelease(h) ==
    /\ pc[h] = "setTimeout"
    /\ sent' = [sent EXCEPT ![h] =
                  Append(@, SetTimeoutStatement(MaxExecutionTime))]
    /\ \/ Goto(h, "clientQuery", NoResult)
       \/ \E e \in DbErrors : Goto(h, "modelSettled", e)
    /\ UNCHANGED otherVars
    /\ UNCHANGED <<validatorVars, build, route, body, stmt, acquired,
                   released, attempts, delays, script, checkedOut,
                   retryAttempts>>

\* QueryModel.executeQuery: SET statement_timeout settles; the user query is
\* sent next, or the error leaves through finally
SetTimeoutSettled(h) ==
    /\ pc[h] = "setTimeout"
    /\ sent' = [sent EXCEPT ![h] =
                  Append(@, SetTimeoutStatement(MaxExecutionTime))]
    /\ \/ /\ Goto(h, "clientQuery", NoResult)
          /\ UNCHANGED <<checkedOut, released>>
       \/ /\ \E e \in DbErrors : Goto(h, "modelSettled", e)
          /\ Release(h)
    /\ UNCHANGED otherVars
    /\ UNCHANGED <<validatorVars, build, route, body, stmt, acquired,
                   attempts, delays, script, retryAttempts>>

\* QueryModel.executeQuery releasing the client after a result only
ClientQuerySettled_ReleaseOnSuccess(h) ==
    /\ pc[h] = "clientQuery"
    /\ sent' = [sent EXCEPT ![h] =
                  Append(@, UserStatement(stmt[h], body[h].params))]
    /\ \/ Goto(h, "modelSettled", Success) /\ Release(h)
       \/ /\ \E e \in DbErrors : Goto(h, "modelSettled", e)
          /\ UNCHANGED <<checkedOut, released>>
    /\ UNCHANGED otherVars
    /\ UNCHANGED <<validatorVars, build, route, body, stmt, acquired,
                   attempts, delays, script, retryAttempts>>

\* QueryModel.executeQuery: client.query(sql, params) settles; the result or
\* the error leaves through finally
ClientQuerySettled(h) ==
    /\ pc[h] = "clientQuery"
    /\ sent' = [sent EXCEPT ![h] =
                  Append(@, UserStatement(stmt[h], body[h].params))]
    /\ \E r \in {Success} \cup DbErrors : Goto(h, "modelSettled", r)
    /\ Release(h)
    /\ UNCHANGED otherVars
    /\ UNCHANGED <<validatorVars, build, route, body, stmt, acquired,
                   attempts, delays, script, retryAttempts>>

\* the backend's answers to the successive attempts of one query, as far as
\* they are fixed in advance: not at all, or two refusals and then a result
Scripts ==
    {<<>>, <<ErrRefused, ErrRefused, Success>>}

\* the backend can answer the current attempt of h with r
Answers(h, r) ==
    attempts[h] <= Len(script[h]) => r = script[h][attempts[h]]

\* QueryProvider.explainQuery of either provider and QueryModel.explainQuery
\* up to the first await: DatabaseConnector.query calls pool.query
ProviderExplainQuery(h) ==
    /\ pc[h] = "provider"
    /\ route[h] = "explain"
    /\ IF ~validateQuery(body[h].sql).isValid
       THEN /\ Goto(h, "responded", ValidationError("Invalid query"))
            /\ UNCHANGED <<stmt, attempts, script>>
       ELSE /\ Goto(h, "poolQuery", NoResult)
            /\ stmt' = [stmt EXCEPT ![h] = sanitizeQuery(body[h].sql)]
            /\ attempts' = [attempts EXCEPT ![h] = 1]
            /\ script' \in {[script EXCEPT ![h] = sc] : sc \in Scripts}
    /\ UNCHANGED otherVars
    /\ UNCHANGED <<validatorVars, build, route, body, acquired, released,
                   sent, delays, checkedOut, retryAttempts>>

StartsWith(s, prefix) ==
    /\ Len(prefix) <= Len(s)
    /\ SubSeq(s, 1, Len(prefix)) = prefix

\* DatabaseConnector.isConnectionError
isConnectionError(error) ==
    /\ error.code # <<>>
    /\ \/ error.code = ErrRefused.code
       \/ error.code = ErrTimedOut.code
       \/ StartsWith(error.code, <<"2", "8">>)

\* the retry condition letting a call retry once more than maxRetries
ShouldRetry_OneMore(error, used) ==
    isConnectionError(error) /\ used <= MaxRetries

\* the condition under which the catch block of DatabaseConnector.query
\* retries
ShouldRetry(error, used) ==
    isConnectionError(error) /\ used < MaxRetries

\* DatabaseConnector.query as a connector that starts counting afresh after
\* a successful statement would behave
ConnectorQuerySettled_ResetOnSuccess(h, r) ==
    IF build.connector = "getClient"
    THEN /\ Goto(h, "modelSettled", r)
         /\ UNCHANGED retryAttempts
    ELSE IF r.success
    THEN /\ Goto(h, "modelSettled", r)
         /\ retryAttempts' = 0
    ELSE IF ShouldRetry(r, retryAttempts)
    THEN /\ retryAttempts' = retryAttempts + 1
         /\ Goto(h, "retryDelay", r)
    ELSE /\ Goto(h, "modelSettled",
                 CustomError("Query execution failed",
                             "QUERY_EXECUTION_ERROR", r.message))
         /\ UNCHANGED retryAttempts

\* DatabaseConnector.query after pool.query has settled with r: the version
\* without retry logic rethrows; the version with retry logic retries or
\* throws a CustomError
ConnectorQuerySettled(h, r) ==
    IF r.success \/ build.connector = "getClient"
    THEN /\ Goto(h, "modelSettled", r)
         /\ UNCHANGED retryAttempts
    ELSE IF ShouldRetry(r, retryAttempts)
    THEN /\ retryAttempts' = retryAttempts + 1
         /\ Goto(h, "retryDelay", r)
    ELSE /\ Goto(h, "modelSettled",
                 CustomError("Query execution failed",
                             "QUERY_EXECUTION_ERROR", r.message))
         /\ UNCHANGED retryAttempts

\* pool.query: a free connection is checked out and the statement sent
PoolQueryConnected(h) ==
    /\ pc[h] = "poolQuery"
    /\ \E r \in {Success} \cup (DbErrors \ ConnectErrors) : Answers(h, r)
    /\ checkedOut < PoolSize
    /\ checkedOut' = checkedOut + 1
    /\ acquired' = [acquired EXCEPT ![h] = @ + 1]
    /\ pc' = [pc EXCEPT ![h] = "poolRunning"]
    /\ UNCHANGED otherVars
    /\ UNCHANGED <<validatorVars, build, route, body, stmt, released, sent,
                   result, attempts, delays, script, retryAttempts>>

\* pool.query: no connection can be made
PoolQueryConnectFailed(h) ==
    /\ pc[h] = "poolQuery"
    /\ \E e \in ConnectErrors : Answers(h, e) /\ ConnectorQuerySettled(h, e)
    /\ UNCHANGED otherVars
    /\ UNCHANGED <<validatorVars, build, route, body, stmt, acquired,
                   released, sent, attempts, delays, script, checkedOut>>

\* pool.query: the statement settles and the pool takes the connection back
PoolQueryFinished(h) ==
    /\ pc[h] = "poolRunning"
    /\ sent' = [sent EXCEPT ![h] =
                  Append(@, ExplainStatement(stmt[h], body[h].params))]
    /\ Release(h)
    /\ \E r \in {Success} \cup DbErrors :
          Answers(h, r) /\ ConnectorQuerySettled(h, r)
    /\ UNCHANGED otherVars
    /\ UNCHANGED <<validatorVars, build, route, body, stmt, acquired,
                   attempts, delays, script>>

\* DatabaseConnector.query: the retry delay is over, this.query(text, params)
RetryTimerFired(h) ==
    /\ pc[h] = "retryDelay"
    /\ delays' = [delays EXCEPT ![h] = @ + 1]
    /\ attempts' = [attempts EXCEPT ![h] = @ + 1]
    /\ Goto(h, "poolQuery", NoResult)
    /\ UNCHANGED otherVars
    /\ UNCHANGED <<validatorVars, build, route, body, stmt, acquired,
                   released, sent, script, checkedOut, retryAttempts>>

\* what QueryProvider.executeQuery hands to the controller when
\* queryModel.executeQuery has settled with r
ExecuteQueryOutcome(provider, r) ==
    IF provider = "root"
    THEN IF r.success THEN Success
         ELSE IF HasTimeoutSignature(r.message)
         THEN ValidationError("Query execution timed out")
         ELSE r
    ELSE IF r.success
         THEN Failure("Error", <<>>, "", "Query execution failed",
                      "Cannot read properties of undefined")
         ELSE Failure("Error", <<>>, "", "Query execution failed", r.message)

\* what QueryProvider.explainQuery hands to the controller when
\* queryModel.explainQuery has settled with r
ExplainQueryOutcome(provider, r) ==
    IF r.success /\ provider = "psql"
    THEN Failure("TypeError", <<>>, "",
                 "this.suggestIndexes is not a function", "")
    ELSE r

\* the rest of the provider and of the controller: res.json or next(error)
ProviderSettled(h) ==
    /\ pc[h] = "modelSettled"
    /\ Goto(h, "responded",
            IF route[h] = "query"
            THEN ExecuteQueryOutcome(build.provider, result[h])
            ELSE ExplainQueryOutcome(build.provider, result[h]))
    /\ UNCHANGED otherVars
    /\ UNCHANGED <<validatorVars, build, route, body, stmt, acquired,
                   released, sent, attempts, delays, script, checkedOut,
                   retryAttempts>>

\* the response is out; the handler takes the next request
Finish(h) ==
    /\ pc[h] = "responded"
    /\ pc' = [pc EXCEPT ![h] = "idle"]
    /\ route' = [route EXCEPT ![h] = "none"]
    /\ body' = [body EXCEPT ![h] = NoBody]
    /\ stmt' = [stmt EXCEPT ![h] = <<>>]
    /\ acquired' = [acquired EXCEPT ![h] = 0]
    /\ released' = [released EXCEPT ![h] = 0]
    /\ sent' = [sent EXCEPT ![h] = <<>>]
    /\ result' = [result EXCEPT ![h] = NoResult]
    /\ attempts' = [attempts EXCEPT ![h] = 0]
    /\ delays' = [delays EXCEPT ![h] = 0]
    /\ script' = [script EXCEPT ![h] = <<>>]
    /\ UNCHANGED otherVars
    /\ UNCHANGED <<validatorVars, build, checkedOut, retryAttempts>>

ValidatorAtRest ==
    /\ vsql = JsNull
    /\ vop = "none"
    /\ vout = "none"

Builds ==
    [provider : Providers, connector : Connectors]

Init ==
    /\ ValidatorAtRest
    /\ ServerAtRest
    /\ OthersAtRest
    /\ build \in Builds

Next ==
    \E h \in Handlers :
        \/ PostQuery(h)
        \/ PostQueryExplain(h)
        \/ ProviderExecuteQuery(h)
        \/ ProviderExecuteQueryPsql(h)
        \/ ProviderExplainQuery(h)
        \/ GetClientResolved(h)
        \/ GetClientRejected(h)
        \/ SetTimeoutSettled(h)
        \/ ClientQuerySettled(h)
        \/ PoolQueryConnected(h)
        \/ PoolQueryConnectFailed(h)
        \/ PoolQueryFinished(h)
        \/ RetryTimerFired(h)
        \/ ProviderSettled(h)
        \/ Finish(h)

Spec ==
    Init /\ [][Next]_vars

\* the server built with the connector that has getClient and no retry
InitPipeline ==
    Init /\ build.connector = "getClient"

\* the connector with getClient does not retry: no retry timer fires
NextPipeline ==
    \E h \in Handlers :
        \/ PostQuery(h)
        \/ PostQueryExplain(h)
        \/ ProviderExecuteQuery(h)
        \/ ProviderExecuteQueryPsql(h)
        \/ ProviderExplainQuery(h)
        \/ GetClientResolved(h)
        \/ GetClientRejected(h)
        \/ SetTimeoutSettled(h)
        \/ ClientQuerySettled(h)
        \/ PoolQueryConnected(h)
        \/ PoolQueryConnectFailed(h)
        \/ PoolQueryFinished(h)
        \/ ProviderSettled(h)
        \/ Finish(h)

SpecPipeline ==
    InitPipeline /\ [][NextPipeline]_vars

\* the server built with the connector that retries
InitConnector ==
    Init /\ build.connector = "retry"

\* the connector that retries has no getClient: no client is ever handed out
NextConnector ==
    \E h \in Handlers :
        \/ PostQuery(h)
        \/ PostQueryExplain(h)
        \/ ProviderExecuteQuery(h)
        \/ ProviderExecuteQueryPsql(h)
        \/ ProviderExplainQuery(h)
        \/ PoolQueryConnected(h)
        \/ PoolQueryConnectFailed(h)
        \/ PoolQueryFinished(h)
        \/ RetryTimerFired(h)
        \/ ProviderSettled(h)
        \/ Finish(h)

SpecConnector ==
    InitConnector /\ [][NextConnector]_vars

(***************************************************************************)
(* Properties of the query execution pipeline.                             *)
(***************************************************************************)
\* a bind parameter that is a scalar and not null or undefined
ScalarParam(v) ==
    v.type \in {"string", "number", "boolean"}

\* the validation that the route of h applies to the request fails
ValidationFails(h) ==
    \/ ~validateQuery(body[h].sql).isValid
    \/ /\ route[h] = "query"
       /\ build.provider = "psql"
       /\ validateQueryInput(body[h].sql, body[h].params) # "ok"

RECURSIVE SumOver(_, _)
SumOver(f, S) ==
    IF S = {} THEN 0
    ELSE LET x == CHOOSE y \in S : TRUE
         IN  f[x] + SumOver(f, S \ {x})

\* the message belongs to a connection-class error
ConnectionClassMessage(m) ==
    m \in {ErrRefused.message, ErrTimedOut.message, ErrAuth.message}

\* the code is ECONNREFUSED, ETIMEDOUT or starts with 28
ConnectionClassCode(c) ==
    \/ c = <<"E","C","O","N","N","R","E","F","U","S","E","D">>
    \/ c = <<"E","T","I","M","E","D","O","U","T">>
    \/ Len(c) >= 2 /\ c[1] = "2" /\ c[2] = "8"

\* C2: on the path POST /api/query -> provider executeQuery -> model
\* executeQuery every bind parameter that reaches the database is a
\* non-null, non-undefined scalar.
C2_OnlyScalarParamsReachDatabase ==
    \A h \in Handlers : \A i \in 1..Len(sent[h]) :
        (sent[h][i].kind = "user" /\ sent[h][i].params.type = "array")
        => \A k \in 1..Len(sent[h][i].params.elems) :
               ScalarParam(sent[h][i].params.elems[k])

\* C3: when validation of the query fails in executeQuery or explainQuery,
\* no pooled connection is acquired, no statement is sent, nothing is
\* retried, and the request ends with the ValidationError.
C3_NoDatabaseCallAfterValidationFailure ==
    \A h \in Handlers :
        route[h] # "none" =>
            \/ /\ acquired[h] = 0
               /\ sent[h] = <<>>
               /\ attempts[h] = 0
               /\ delays[h] = 0
               /\ pc[h] \in {"provider", "responded"}
               /\ pc[h] = "responded" => result[h].name = "ValidationError"
            \/ ~ValidationFails(h)

\* the controller let the request through and the provider rejected it
C3_Witness ==
    \E h \in Handlers :
        /\ pc[h] = "responded"
        /\ route[h] = "query"
        /\ validateQuery(body[h].sql).isValid
        /\ ValidationFails(h)
        /\ result[h] = ValidationError("Parameter rejected")

\* C4: every connection acquired by QueryModel.executeQuery is released
\* exactly once on every exit path, so that no connection is checked out
\* once the calls have completed and none is released twice.
C4_ClientReleasedExactlyOnce ==
    /\ \A h \in Handlers :
          route[h] = "query" =>
              /\ released[h] <= acquired[h]
              /\ acquired[h] <= 1
              /\ (acquired[h] - released[h] = 1)
                    <=> pc[h] \in {"setTimeout", "clientQuery"}
    /\ checkedOut =
          SumOver([h \in Handlers |-> acquired[h] - released[h]], Handlers)
    /\ (\A h \in Handlers : pc[h] \in {"idle", "responded"})
          => checkedOut = 0

\* a query cancelled by the statement timeout has given its connection back
C4_Witness ==
    \E h \in Handlers :
        /\ pc[h] = "responded"
        /\ route[h] = "query"
        /\ result[h] = ValidationError("Query execution timed out")
        /\ acquired[h] = 1
        /\ released[h] = 1
        /\ checkedOut = 0

\* C5, as stated: every call to execute, validation failures included,
\* results in exactly one acquire and exactly one release.
C5_EveryCallOneAcquireOneRelease ==
    \A h \in Handlers :
        (pc[h] = "responded" /\ route[h] = "query")
        => acquired[h] = 1 /\ released[h] = 1

\* C5, amended: a call to execute releases as many connections as it
\* acquires: one if it passes validation and pool.connect succeeds, none if
\* validation fails or pool.connect fails.
C5_AcquireReleasePaired ==
    \A h \in Handlers :
        (pc[h] = "responded" /\ route[h] = "query")
        => /\ released[h] = acquired[h]
           /\ acquired[h] = IF sent[h] # <<>> THEN 1 ELSE 0
           /\ ValidationFails(h) => acquired[h] = 0
           /\ result[h].success => acquired[h] = 1

\* a successful call with its one acquire and one release
C5_Witness ==
    \E h \in Handlers :
        /\ pc[h] = "responded"
        /\ route[h] = "query"
        /\ result[h].success
        /\ acquired[h] = 1
        /\ released[h] = 1

\* C6: each query that hits connection-class errors has its own retry
\* state: its failure is surfaced only after maxRetries retries of its own,
\* whatever other queries on the same connector have used.
C6_EachQueryHasItsOwnRetries ==
    \A h \in Handlers :
        (/\ route[h] = "explain"
         /\ pc[h] \in {"modelSettled", "responded"}
         /\ result[h].name = "CustomError"
         /\ ConnectionClassMessage(result[h].detail))
        => attempts[h] = MaxRetries + 1 /\ delays[h] = MaxRetries

\* C7: a query whose first two attempts are refused and whose third attempt
\* succeeds returns the result of the third attempt after exactly two retry
\* delays.
C7_ThirdAttemptResultReturned ==
    \A h \in Handlers :
        (script[h] = <<ErrRefused, ErrRefused, Success>>
            /\ pc[h] = "modelSettled")
        => /\ result[h] = Success
           /\ attempts[h] = 3
           /\ delays[h] = 2

\* C8: a failure that is not connection-class is never retried, and a
\* statement-timeout cancellation reaches the caller only as the distinct
\* 'Query execution timed out' error.
C8_OtherFailuresSurfaceAtOnce ==
    \A h \in Handlers :
        /\ pc[h] = "retryDelay" => ConnectionClassCode(result[h].code)
        /\ pc[h] = "responded" =>
              /\ result[h].message # MsgStatementTimeout
              /\ result[h].detail # MsgStatementTimeout

(***************************************************************************)
(* SQL inputs: every text of at most MaxTokens lexemes of one vocabulary,  *)
(* and the values that are not strings.                                    *)
(***************************************************************************)
VocabWrite ==
    {W_select, <<" ">>, <<"I","N","S","E","R","T">>, W_into, W_update, W_set}

VocabLines ==
    {W_explain \o <<" ">>, W_update, W_set, <<"\n">>, <<" ">>, <<"t">>}

VocabObject ==
    {W_explain, <<" ">>, W_drop, W_table, W_grant, <<"x">>}

VocabStructure ==
    {W_select, <<" ">>, <<";">>, <<"-","-">>, W_copy, <<"(">>}

VocabComment ==
    {W_select, <<" ">>, <<";">>, <<"-","-">>, <<"\n">>, <<"1">>}

VocabCase ==
    {<<"S","e","l","e","c","t">>, W_show, <<"\t">>, W_truncate, W_delete,
     W_from}

VocabDdl ==
    {W_describe, <<" ">>, W_alter, W_create, W_view, W_revoke}

VocabQuote ==
    {W_select \o <<" ">>, <<"'">>, <<"-","-">>, <<"\n">>, <<"x">>, <<" ">>}

Vocabularies ==
    {VocabWrite, VocabLines, VocabObject, VocabStructure, VocabComment,
     VocabCase, VocabDdl, VocabQuote}

RECURSIVE Flatten(_)
Flatten(ts) ==
    IF ts = <<>> THEN <<>> ELSE Head(ts) \o Flatten(Tail(ts))

\* the texts of at most MaxTokens lexemes of the vocabulary voc
SqlTextsOf(voc) ==
    UNION { {Flatten(ts) : ts \in [1..n -> voc]} : n \in 0..MaxTokens }

NonStrings ==
    {JsNull, JsUndefined, JsNumber(<<"0">>), JsNumber(<<"1">>), JsObject}

SqlInputsOf(voc) ==
    {JsString(t) : t \in SqlTextsOf(voc)} \cup NonStrings

(***************************************************************************)
(* The validator on its own: one call of one method on one input.          *)
(***************************************************************************)
InitValidator ==
    /\ \E voc \in Vocabularies : vsql \in SqlInputsOf(voc)
    /\ vop = "none"
    /\ vout = "none"
    /\ ServerAtRest
    /\ OthersAtRest
    /\ build = [provider |-> "root", connector |-> "getClient"]

CallIsReadOnly ==
    /\ vop = "none"
    /\ vop' = "isReadOnly"
    /\ vout' = isReadOnly(vsql)
    /\ UNCHANGED otherVars
    /\ UNCHANGED <<vsql, build, requestVars, checkedOut, retryAttempts>>

CallValidateQuery ==
    /\ vop = "none"
    /\ vop' = "validateQuery"
    /\ vout' = validateQuery(vsql)
    /\ UNCHANGED otherVars
    /\ UNCHANGED <<vsql, build, requestVars, checkedOut, retryAttempts>>

CallSanitizeQuery ==
    /\ vop = "none"
    /\ vop' = "sanitizeQuery"
    /\ vout' = sanitizeQuery(vsql)
    /\ UNCHANGED otherVars
    /\ UNCHANGED <<vsql, build, requestVars, checkedOut, retryAttempts>>

NextValidator ==
    \/ CallIsReadOnly
    \/ CallValidateQuery
    \/ CallSanitizeQuery

SpecValidator ==
    InitValidator /\ [][NextValidator]_vars

\* validateQuery alone, and isReadOnly alone, on the same inputs
NextValidateQuery ==
    CallValidateQuery

SpecValidateQuery ==
    InitValidator /\ [][NextValidateQuery]_vars

NextIsReadOnly ==
    CallIsReadOnly

SpecIsReadOnly ==
    InitValidator /\ [][NextIsReadOnly]_vars

(***************************************************************************)
(* Properties of the validator.                                            *)
(***************************************************************************)
Range(seq) ==
    {seq[i] : i \in 1..Len(seq)}

WriteKeywords ==
    {W_insert, W_update, W_delete, W_drop, W_alter, W_create, W_truncate,
     W_grant, W_revoke}

\* s contains one of the write keywords as a whole word, in any case
ContainsWriteKeyword(s) ==
    \E kw \in WriteKeywords : MatchWord(s, kw)

\* s contains two consecutive dashes
ContainsDashDash(s) ==
    \E i \in 1..(Len(s) - 1) : s[i] = "-" /\ s[i + 1] = "-"

\* s contains a semicolon followed, after optional white space, by a word
\* character
ContainsStackedStatement(s) ==
    \E i \in 1..Len(s) : \E j \in (i + 1)..Len(s) :
        /\ s[i] = ";"
        /\ \A k \in (i + 1)..(j - 1) : IsSpace(s[k])
        /\ IsWordChar(s[j])

\* C1: isReadOnly(sql) is false for every string that contains INSERT,
\* UPDATE, DELETE, DROP, ALTER, CREATE, TRUNCATE, GRANT or REVOKE as a whole
\* word, in any case, whatever follows the keyword and wherever it occurs.
C1_WriteKeywordIsNotReadOnly ==
    (vop = "isReadOnly" /\ vsql.type = "string"
        /\ ContainsWriteKeyword(vsql.chars))
    => vout = FALSE

\* C9: on a non-empty string validateQuery evaluates its four checks
\* (read-only, no '--', no statement stacking, no deny-listed function)
\* independently: errors holds exactly the messages of the violated checks,
\* in that order and once each, and isValid is true iff errors is empty; a
\* null, empty or non-string sql gives the single error 'Query cannot be
\* empty'.
C9_ValidateCollectsAllErrors ==
    vop = "validateQuery" =>
        IF vsql.type = "string" /\ vsql.chars # <<>>
        THEN LET Violated(m) ==
                     CASE m = MsgReadOnly -> ~isReadOnly(vsql)
                       [] m = MsgComments -> ContainsDashDash(vsql.chars)
                       [] m = MsgMultiple ->
                              ContainsStackedStatement(vsql.chars)
                       [] m = MsgUnsafe -> unsafeFunctions(vsql.chars)
             IN  /\ vout.errors =
                       SelectSeq(<<MsgReadOnly, MsgComments, MsgMultiple,
                                   MsgUnsafe>>, Violated)
                 /\ vout.isValid <=> (vout.errors = <<>>)
        ELSE vout = [isValid |-> FALSE, errors |-> <<MsgEmpty>>]

\* all four checks are violated at once and all four messages are reported
C9_Witness ==
    /\ vop = "validateQuery"
    /\ vout.errors = <<MsgReadOnly, MsgComments, MsgMultiple, MsgUnsafe>>

\* C10: every sql that contains a semicolon followed, after optional white
\* space, by a word character is rejected by validateQuery with 'Multiple
\* SQL statements are not allowed' among the errors.
C10_StackedStatementRejected ==
    (vop = "validateQuery" /\ vsql.type = "string"
        /\ ContainsStackedStatement(vsql.chars))
    => /\ vout.isValid = FALSE
       /\ MsgMultiple \in Range(vout.errors)

\* a read-only statement followed by '; ' and a second statement is rejected
\* by the stacking check alone
C10_Witness ==
    /\ vop = "validateQuery"
    /\ vsql.type = "string"
    /\ \E i \in 1..(Len(vsql.chars) - 1) :
          vsql.chars[i] = ";" /\ IsSpace(vsql.chars[i + 1])
    /\ ContainsStackedStatement(vsql.chars)
    /\ vout.errors = <<MsgMultiple>>

\* C11: every sql that contains '--' anywhere, inside a quoted string
\* literal included, is rejected by validateQuery with 'SQL comments are not
\* allowed' among the errors.
C11_DashDashRejected ==
    (vop = "validateQuery" /\ vsql.type = "string"
        /\ ContainsDashDash(vsql.chars))
    => /\ vout.isValid = FALSE
       /\ MsgComments \in Range(vout.errors)

\* a read-only statement with '--' between two quotes is rejected by the
\* comment check alone
C11_Witness ==
    /\ vop = "validateQuery"
    /\ vsql.type = "string"
    /\ \E i, j, k \in 1..Len(vsql.chars) :
          /\ i < j /\ j + 1 < k
          /\ vsql.chars[i] = "'" /\ vsql.chars[k] = "'"
          /\ vsql.chars[j] = "-" /\ vsql.chars[j + 1] = "-"
    /\ vout.errors = <<MsgComments>>

\* the first character of s that is not white space starts the word kw, in
\* any case
BeginsWithWord(s, kw) ==
    \E p \in 0..Len(s) :
        /\ \A k \in 1..p : IsSpace(s[k])
        /\ p + Len(kw) <= Len(s)
        /\ \A k \in 1..Len(kw) : Lower(s[p + k]) = kw[k]
        /\ p + Len(kw) = Len(s) \/ ~IsWordChar(s[p + Len(kw) + 1])

\* s begins, after leading white space, with SELECT, SHOW, DESCRIBE or
\* EXPLAIN
BeginsWithReadWord(s) ==
    \E kw \in {W_select, W_show, W_describe, W_explain} : BeginsWithWord(s, kw)

C13_IsReadOnlyFailClosed ==
    (vop = "isReadOnly"
        /\ \/ vsql.type # "string"
           \/ vsql.chars = <<>>
           \/ ~BeginsWithReadWord(vsql.chars))
    => vout = FALSE

\* a statement of no recognised shape and without any write keyword
C13_Witness ==
    /\ vop = "isReadOnly"
    /\ vsql.type = "string"
    /\ vsql.chars # <<>>
    /\ \E i \in 1..Len(vsql.chars) : ~IsSpace(vsql.chars[i])
    /\ ~BeginsWithReadWord(vsql.chars)
    /\ ~ContainsWriteKeyword(vsql.chars)
    /\ vout = FALSE

(***************************************************************************)
(* Functions on their own: one call of one function on one argument.       *)
(***************************************************************************)
Min(a, b) ==
    IF a <= b THEN a ELSE b

\* Array.prototype.slice(0, end)
SliceFromStart(a, end) ==
    LET len == Len(a)
        final == IF end < 0 THEN (IF len + end < 0 THEN 0 ELSE len + end)
                 ELSE Min(end, len)
    IN  SubSeq(a, 1, final)

\* what client.query resolves with for a statement that returns rows
BackendResult(rows) ==
    [rows |-> rows, rowCount |-> Len(rows)]

\* result.rows.length > config.query.maxRowsReturned, after the slice
rowsLimited_AfterSlice(res, cap) ==
    Len(SliceFromStart(res.rows, cap)) > cap

\* result.rows.length > config.query.maxRowsReturned
rowsLimited(res, cap) ==
    Len(res.rows) > cap

\* the value QueryModel.executeQuery returns for the backend's result
executeQueryResult(res, cap) ==
    LET limitedRows == SliceFromStart(res.rows, cap)
    IN  [kind |-> "executionResult",
         rows |-> limitedRows,
         rowCount |-> res.rowCount,
         rowsLimited |-> rowsLimited(res, cap),
         totalRows |-> res.rowCount,
         returnedRows |-> Len(limitedRows)]

RowValues ==
    {"a", "b"}

RowInputs ==
    {[kind |-> "result", result |-> BackendResult(rows), cap |-> c] :
        rows \in UNION {[1..n -> RowValues] : n \in 0..MaxRows},
        c \in 0..MaxCap}

CallExecuteQueryResult ==
    /\ uop = "none"
    /\ uin.kind = "result"
    /\ uop' = "executeQuery"
    /\ uout' = executeQueryResult(uin.result, uin.cap)
    /\ UNCHANGED <<uin, limiterVars, repeatVars, browserVars,
                   validatorVars, build,
                   requestVars, checkedOut, retryAttempts>>

ApiErrorClasses ==
    {"DatabaseError", "ValidationError", "NotFoundError",
     "AuthorizationError", "AuthenticationError", "RateLimitError",
     "AIError"}

StatusOfClass(cls) ==
    CASE cls = "DatabaseError" -> 500
      [] cls = "ValidationError" -> 400
      [] cls = "NotFoundError" -> 404
      [] cls = "AuthorizationError" -> 403
      [] cls = "AuthenticationError" -> 401
      [] cls = "RateLimitError" -> 429
      [] cls = "AIError" -> 500

CodeOfClass(cls) ==
    CASE cls = "DatabaseError" -> "DATABASE_ERROR"
      [] cls = "ValidationError" -> "VALIDATION_ERROR"
      [] cls = "NotFoundError" -> "NOT_FOUND"
      [] cls = "AuthorizationError" -> "AUTHORIZATION_ERROR"
      [] cls = "AuthenticationError" -> "AUTHENTICATION_ERROR"
      [] cls = "RateLimitError" -> "RATE_LIMIT_ERROR"
      [] cls = "AIError" -> "AI_ERROR"

\* a thrown value as the handlers see it. cls: its class; code: err.code of
\* a driver or system error as characters (<<>> when absent); taxonomy:
\* err.code of an ApiError or err.type of a CustomError; statusCode: 0
\* when absent; details: what the constructor got as details
Thrown(cls, code, taxonomy, statusCode, message, details) ==
    [cls |-> cls, code |-> code, taxonomy |-> taxonomy,
     statusCode |-> statusCode, message |-> message, details |-> details,
     stack |-> "Error: " \o message \o " at query-model.js"]

\* new <cls>(message, { originalError: details })
ApiError(cls, message, details) ==
    Thrown(cls, <<>>, CodeOfClass(cls), StatusOfClass(cls), message, details)

\* new CustomError(message, type, statusCode, details) of mcp-psql
CustomErrorThrown(message, type, statusCode, details) ==
    Thrown("CustomError", <<>>, type, statusCode, message, details)

\* an error of the pg driver or of the runtime: err.code and err.message
RawError(cls, code, message) ==
    Thrown(cls, code, "", 0, message, "")

\* err.code of an ApiError is its taxonomy code: a string, never empty,
\* that neither starts with '28' nor has five characters
HasCode(err) ==
    err.code # <<>> \/ err.cls \in ApiErrorClasses

SqlStateChars ==
    {"0","1","2","3","4","5","6","7","8","9",
     "A","B","C","D","E","F","G","H","I","J","K","L","M",
     "N","O","P","Q","R","S","T","U","V","W","X","Y","Z"}

\* /^[0-9A-Z]{5}$/.test(err.code)
MatchSqlState(c) ==
    /\ Len(c) = 5
    /\ \A i \in 1..5 : c[i] \in SqlStateChars

\* handleDatabaseError (the same in both files): pgErrorMap[err.code], or the
\* generic DatabaseError
handleDatabaseError(err) ==
    LET c == err.code
    IN  CASE
           c = <<"4","2","P","0","1">> ->
               ApiError("NotFoundError", "Relation not found", err.message)
        [] c = <<"4","2","P","0","4">> ->
               ApiError("ValidationError", "Duplicate database", err.message)
        [] c = <<"4","2","5","0","1">> ->
               ApiError("AuthorizationError", "Insufficient privileges", err.message)
        [] c = <<"4","2","6","0","1">> ->
               ApiError("ValidationError", "Syntax error in SQL", err.message)
        [] c = <<"4","2","7","0","3">> ->
               ApiError("ValidationError", "Column not found", err.message)
        [] c = <<"4","2","P","2","0">> ->
               ApiError("ValidationError", "Window function error", err.message)
        [] c = <<"2","2","P","0","2">> ->
               ApiError("ValidationError", "Invalid text representation", err.message)
        [] c = <<"2","3","5","0","5">> ->
               ApiError("ValidationError", "Unique violation", err.message)
        [] c = <<"5","7","0","1","4">> ->
               ApiError("ValidationError", "Query execution was canceled (timeout)", err.message)
          [] OTHER ->
               ApiError("DatabaseError", "Database operation failed",
                        err.message)

\* the body and status a handler gives to res.status(..).json(..); a field
\* the handler leaves out is ""
Response(status, code, message, details, timestamp) ==
    [kind |-> "response", status |-> status, success |-> FALSE,
     code |-> code, message |-> message, details |-> details,
     timestamp |-> timestamp, stack |-> ""]

Envs == {"development", "production", "undefined"}

\* process.env.NODE_ENV === 'development', true whenever NODE_ENV is not
\* 'production'
isDevelopment_NotProduction(env) ==
    env # "production"

\* process.env.NODE_ENV === 'development'
isDevelopment(env) ==
    env = "development"

\* errorHandlerMiddleware of error-handler.js
errorHandlerMiddleware(err, env) ==
    IF err.cls \in ApiErrorClasses
    THEN Response(err.statusCode, err.taxonomy, err.message, err.details, "")
    ELSE IF err.code # <<>> /\ MatchSqlState(err.code)
    THEN LET apiError == handleDatabaseError(err)
         IN  Response(apiError.statusCode, apiError.taxonomy,
                      apiError.message, apiError.details, "")
    ELSE Response(500, "INTERNAL_SERVER_ERROR",
                  "An unexpected error occurred",
                  IF isDevelopment(env) THEN err.message ELSE "", "")

\* errorHandlerMiddleware of mcp-psql/middleware/error-handler.js; the
\* logger call writes no part of the response
errorHandlerMiddlewarePsql(err, env) ==
    IF err.cls = "CustomError"
    THEN Response(err.statusCode, err.taxonomy, err.message, err.details,
                  "now")
    ELSE IF HasCode(err) /\ StartsWith(err.code, <<"2", "8">>)
    THEN Response(503, "DATABASE_ERROR", "Database service unavailable", "",
                  "now")
    ELSE Response(500, "INTERNAL_SERVER_ERROR",
                  IF isDevelopment(env) THEN err.message
                  ELSE "Internal server error", "", "now")

\* what is thrown at the handlers in the model
Messages == {"relation t does not exist", "password is hunter2"}

BackendCodes ==
    {<<"4","2","P","0","1">>,
     <<"4","2","P","0","4">>,
     <<"4","2","5","0","1">>,
     <<"4","2","6","0","1">>,
     <<"4","2","7","0","3">>,
     <<"4","2","P","2","0">>,
     <<"2","2","P","0","2">>,
     <<"2","3","5","0","5">>,
     <<"5","7","0","1","4">>,
     <<"2","8","P","0","1">>,
     <<"2","8","0","0","0">>,
     <<"0","8","0","0","6">>,
     <<"X","X","0","0","0">>,
     <<"E","C","O","N","N","R","E","F","U","S","E","D">>,
     <<"E","T","I","M","E","D","O","U","T">>}

ThrownErrors ==
    {ApiError(cls, m, "") : cls \in ApiErrorClasses, m \in Messages}
    \cup {CustomErrorThrown(m, "VALIDATION_ERROR", 400, "") : m \in Messages}
    \cup {RawError("Error", c, m) : c \in BackendCodes \cup {<<>>},
                                    m \in Messages}
    \cup {RawError("TypeError", <<>>, m) : m \in Messages}

ErrorInputs ==
    {[kind |-> "error", err |-> e, env |-> v] :
         e \in ThrownErrors, v \in Envs}

CallHandleDatabaseError ==
    /\ uop = "none"
    /\ uin.kind = "error"
    /\ uin.err.cls \notin ApiErrorClasses \cup {"CustomError"}
    /\ uop' = "handleDatabaseError"
    /\ uout' = handleDatabaseError(uin.err)
    /\ UNCHANGED <<uin, limiterVars, repeatVars, browserVars,
                   validatorVars, build,
                   requestVars, checkedOut, retryAttempts>>

CallErrorHandlerMiddleware ==
    /\ uop = "none"
    /\ uin.kind = "error"
    /\ uop' = "errorHandlerMiddleware"
    /\ uout' = errorHandlerMiddleware(uin.err, uin.env)
    /\ UNCHANGED <<uin, limiterVars, repeatVars, browserVars,
                   validatorVars, build,
                   requestVars, checkedOut, retryAttempts>>

CallErrorHandlerMiddlewarePsql ==
    /\ uop = "none"
    /\ uin.kind = "error"
    /\ uop' = "errorHandlerMiddlewarePsql"
    /\ uout' = errorHandlerMiddlewarePsql(uin.err, uin.env)
    /\ UNCHANGED <<uin, limiterVars, repeatVars, browserVars,
                   validatorVars, build,
                   requestVars, checkedOut, retryAttempts>>

(***************************************************************************)
(* SecurityMiddleware.checkPermissions (mcp-psql/middleware/security.js).  *)
(***************************************************************************)
P_star ==
    <<"*">>

P_getAny ==
    <<"G", "E", "T", " ", "*">>

P_postQuery ==
    <<"P", "O", "S", "T", " ", "/", "a", "p", "i", "/", "q", "u", "e", "r", "y">>

P_postExplain ==
    <<"P", "O", "S", "T", " ", "/", "a", "p", "i", "/", "q", "u", "e", "r", "y", "/", "e", "x", "p", "l", "a", "i", "n">>

\* the permissions table
permissions(userRole) ==
    CASE userRole = "admin" -> {P_star}
      [] userRole = "user" -> {P_getAny, P_postQuery, P_postExplain}
      [] userRole = "readonly" -> {P_getAny}

\* the callback of some(): a pattern ending in '*' is tested as a prefix of
\* the operation, and so is every other pattern
PatternAllows_PrefixOnly(pattern, operation) ==
    IF pattern = <<"*">> THEN TRUE
    ELSE IF pattern[Len(pattern)] = "*"
    THEN StartsWith(operation, SubSeq(pattern, 1, Len(pattern) - 1))
    ELSE StartsWith(operation, pattern)

\* the callback of some(): '*', a pattern ending in '*', or the operation
\* itself
PatternAllows(pattern, operation) ==
    IF pattern = <<"*">> THEN TRUE
    ELSE IF pattern[Len(pattern)] = "*"
    THEN StartsWith(operation, SubSeq(pattern, 1, Len(pattern) - 1))
    ELSE operation = pattern

NextCalled ==
    [kind |-> "next"]

Threw(message) ==
    [kind |-> "ValidationError", message |-> message]

\* checkPermissions; userRole "" stands for a request without the header
checkPermissions(userRole, method, path) ==
    IF userRole = ""
    THEN Threw("User role is required")
    ELSE IF userRole \notin {"admin", "user", "readonly"}
    THEN Threw("Invalid user role")
    ELSE LET operation == method \o <<" ">> \o path
         IN  IF \E pattern \in permissions(userRole) :
                    PatternAllows(pattern, operation)
             THEN NextCalled
             ELSE Threw("Permission denied")

M_get ==
    <<"G", "E", "T">>

M_post ==
    <<"P", "O", "S", "T">>

M_delete ==
    <<"D", "E", "L", "E", "T", "E">>

Path_query ==
    <<"/", "a", "p", "i", "/", "q", "u", "e", "r", "y">>

Path_explain ==
    <<"/", "a", "p", "i", "/", "q", "u", "e", "r", "y", "/", "e", "x", "p", "l", "a", "i", "n">>

PermissionInputs ==
    {[kind |-> "permission", role |-> r, method |-> m, path |-> p] :
         r \in {"", "admin", "user", "readonly", "Admin", "root"},
         m \in {M_get, M_post, M_delete},
         p \in {Path_query, Path_explain, Path_query \o <<"/">>,
                Path_explain \o <<"/", "x">>, <<"/", "a", "p", "i", "/", "s", "c", "h", "e", "m", "a", "s">>, <<"/", "h", "e", "a", "l", "t", "h">>}}

CallCheckPermissions ==
    /\ uop = "none"
    /\ uin.kind = "permission"
    /\ uop' = "checkPermissions"
    /\ uout' = checkPermissions(uin.role, uin.method, uin.path)
    /\ UNCHANGED <<uin, limiterVars, repeatVars, browserVars,
                   validatorVars, build,
                   requestVars, checkedOut, retryAttempts>>

\* one function applied once to one input
InitUnits ==
    /\ uin \in RowInputs \cup ErrorInputs \cup PermissionInputs
    /\ uop = "none"
    /\ uout = NoValue
    /\ ValidatorAtRest
    /\ ServerAtRest
    /\ LimiterAtRest
    /\ RepeatAtRest
    /\ BrowserAtRest
    /\ build = [provider |-> "psql", connector |-> "getClient"]

NextUnits ==
    \/ CallExecuteQueryResult
    \/ CallHandleDatabaseError
    \/ CallErrorHandlerMiddleware
    \/ CallErrorHandlerMiddlewarePsql
    \/ CallCheckPermissions

SpecUnits ==
    InitUnits /\ [][NextUnits]_vars

\* the table of the specification: kind and status by backend code
TableKind(c) ==
    CASE c = <<"4","2","P","0","1">> -> "NOT_FOUND"
      [] c = <<"4","2","5","0","1">> -> "AUTHORIZATION_ERROR"
      [] c \in {<<"4","2","P","0","4">>, <<"4","2","6","0","1">>,
                <<"4","2","7","0","3">>, <<"4","2","P","2","0">>,
                <<"2","2","P","0","2">>, <<"2","3","5","0","5">>,
                <<"5","7","0","1","4">>} -> "VALIDATION_ERROR"
      [] OTHER -> "DATABASE_ERROR"

TableStatus(c) ==
    CASE TableKind(c) = "NOT_FOUND" -> 404
      [] TableKind(c) = "AUTHORIZATION_ERROR" -> 403
      [] TableKind(c) = "VALIDATION_ERROR" -> 400
      [] OTHER -> IF ConnectionClassCode(c) THEN 503 ELSE 500

\* C15: handleDatabaseError gives every backend code the kind and the status
\* of the table: 42P01 NOT_FOUND/404, 42501 AUTHORIZATION_ERROR/403, the
\* seven validation codes VALIDATION_ERROR/400, a connection-class code
\* DATABASE_ERROR/503, and every other code or no code DATABASE_ERROR/500.
C15_TranslateFollowsTable ==
    uop = "handleDatabaseError" =>
        /\ uout.taxonomy = TableKind(uin.err.code)
        /\ uout.statusCode = TableStatus(uin.err.code)

\* a typed error: an instance of a subclass of ApiError
TypedError(err) ==
    err.cls \in ApiErrorClasses

\* C16: a typed error handed to either error-handling middleware reaches
\* the client with success false, its own taxonomy code and its own status.
C16_TypedErrorKeepsCodeAndStatus ==
    (/\ uop \in {"errorHandlerMiddleware", "errorHandlerMiddlewarePsql"}
     /\ TypedError(uin.err)) =>
        /\ uout.success = FALSE
        /\ uout.code = uin.err.taxonomy
        /\ uout.status = uin.err.statusCode

\* an exception that is no typed error and carries no code a handler looks
\* at: neither five characters of [0-9A-Z] nor a code of class 28
Unclassified(err) ==
    /\ err.cls \notin ApiErrorClasses \cup {"CustomError"}
    /\ ~MatchSqlState(err.code)
    /\ ~StartsWith(err.code, <<"2", "8">>)

GenericMessages ==
    {"An unexpected error occurred", "Internal server error"}

\* the response the handler named by op gives
ResponseOf(op, err, env) ==
    IF op = "errorHandlerMiddleware"
    THEN errorHandlerMiddleware(err, env)
    ELSE errorHandlerMiddlewarePsql(err, env)

\* C17: an unclassified exception gets status 500; outside development the
\* body has a generic message, holds neither the raw message nor the stack,
\* and is the body any exception differing only in message and stack gets;
\* in development the only raw text in the body is the message.
C17_UnclassifiedIsGeneric ==
    (/\ uop \in {"errorHandlerMiddleware", "errorHandlerMiddlewarePsql"}
     /\ Unclassified(uin.err)) =>
        /\ uout.status = 500
        /\ uout.success = FALSE
        /\ uout.code = "INTERNAL_SERVER_ERROR"
        /\ uout.stack = ""
        /\ \A f \in {"message", "details", "timestamp", "code"} :
               uout[f] # uin.err.stack
        /\ uin.env # "development" =>
               /\ uout.message \in GenericMessages
               /\ uout.details # uin.err.message
               /\ \A m \in Messages :
                      ResponseOf(uop,
                          [uin.err EXCEPT !.message = m,
                               !.stack = "Error: " \o m \o " elsewhere"],
                          uin.env) = uout
        /\ uin.env = "development" =>
               uin.err.message \in {uout.message, uout.details}

C17_Witness ==
    /\ uop \in {"errorHandlerMiddleware", "errorHandlerMiddlewarePsql"}
    /\ Unclassified(uin.err)
    /\ uin.err.code # <<>>
    /\ uin.env = "undefined"
    /\ uout.status = 500
    /\ uout.message \in GenericMessages
    /\ uout.details = ""

(***************************************************************************)
(* SecurityMiddleware.rateLimit (mcp-psql/middleware/security.js).         *)
(***************************************************************************)
\* the entry the request works on, without the window check
LimitInfoAt_NoReset(limitInfo, now) ==
    IF limitInfo.present
    THEN limitInfo
    ELSE [present |-> TRUE, count |-> 0, resetTime |-> now + RateLimitWindow]

\* the entry the request works on: this.rateLimits.get(clientIp), or the
\* new entry, and then the window check
LimitInfoAt(limitInfo, now) ==
    LET got == IF limitInfo.present
               THEN limitInfo
               ELSE [present |-> TRUE, count |-> 0,
                     resetTime |-> now + RateLimitWindow]
    IN  IF now > got.resetTime
        THEN [got EXCEPT !.count = 0, !.resetTime = now + RateLimitWindow]
        ELSE got

\* limitInfo.count > config.rateLimit.max
LimitExceeded_OffByOne(limitInfo) ==
    limitInfo.count > RateLimitMax

\* limitInfo.count >= config.rateLimit.max
LimitExceeded(limitInfo) ==
    limitInfo.count >= RateLimitMax

\* Date.now() moves on
Tick ==
    /\ clock < MaxClock
    /\ clock' = clock + 1
    /\ UNCHANGED <<rateLimits, admitted, served, unitVars,
                   repeatVars, browserVars,
                   validatorVars, build, requestVars, checkedOut,
                   retryAttempts>>

\* rateLimit(req, res, next) with this = SecurityMiddleware and
\* req.ip = c: the request is counted and next() called, or a
\* ValidationError thrown
RateLimit(c) ==
    LET limitInfo == LimitInfoAt(rateLimits[c], clock)
        windowReset == rateLimits[c].present
                       /\ clock > rateLimits[c].resetTime
        seen == [client |-> c, at |-> clock, before |-> rateLimits[c]]
    IN  /\ IF LimitExceeded(limitInfo)
           THEN /\ rateLimits' = [rateLimits EXCEPT ![c] = limitInfo]
                /\ admitted' = [admitted EXCEPT
                                   ![c] = IF windowReset THEN 0 ELSE @]
                /\ served' = seen @@ [outcome |-> "ValidationError"]
           ELSE /\ rateLimits' = [rateLimits EXCEPT
                       ![c] = [limitInfo EXCEPT !.count = @ + 1]]
                /\ admitted' = [admitted EXCEPT
                                   ![c] = IF windowReset THEN 1 ELSE @ + 1]
                /\ served' = seen @@ [outcome |-> "next"]
        /\ UNCHANGED <<clock, unitVars, repeatVars, browserVars, validatorVars, build,
                       requestVars, checkedOut, retryAttempts>>

\* rateLimit called as server.js mounts it, app.use(SecurityMiddleware
\* .rateLimit): this is undefined and reading this.rateLimits throws
RateLimitUnbound(c) ==
    /\ served' = [client |-> c, at |-> clock, before |-> rateLimits[c],
                  outcome |-> "TypeError"]
    /\ UNCHANGED <<rateLimits, clock, admitted, unitVars,
                   repeatVars, browserVars,
                   validatorVars, build, requestVars, checkedOut,
                   retryAttempts>>

InitLimiter ==
    /\ LimiterAtRest
    /\ UnitAtRest
    /\ RepeatAtRest
    /\ BrowserAtRest
    /\ ValidatorAtRest
    /\ ServerAtRest
    /\ build = [provider |-> "psql", connector |-> "getClient"]

NextLimiter ==
    \/ Tick
    \/ \E c \in Clients : RateLimit(c)
    \/ \E c \in Clients : RateLimitUnbound(c)

SpecLimiter ==
    InitLimiter /\ [][NextLimiter]_vars

\* C18: for every client the counter never exceeds the configured max and
\* at most max requests are admitted between two window resets; the first
\* request after the reset time starts the count again from zero; a request
\* that finds the counter at max inside the window does not reach next().
C18_RateLimiterBoundsEachClient ==
    /\ \A c \in Clients :
           /\ rateLimits[c].count <= RateLimitMax
           /\ admitted[c] <= RateLimitMax
    /\ served.outcome \in {"next", "ValidationError"} =>
           LET c == served.client
               expired == served.before.present
                          /\ served.at > served.before.resetTime
               counted == IF served.outcome = "next" THEN 1 ELSE 0
           IN  /\ expired =>
                      /\ rateLimits[c].count = 0 + counted
                      /\ rateLimits[c].resetTime = served.at + RateLimitWindow
               /\ (~expired /\ served.before.present) =>
                      /\ rateLimits[c].count = served.before.count + counted
                      /\ rateLimits[c].resetTime = served.before.resetTime
    /\ (/\ served.outcome # "none"
        /\ served.before.present
        /\ served.before.count = RateLimitMax
        /\ served.at <= served.before.resetTime) =>
           served.outcome # "next"

C18_Witness ==
    /\ served.outcome = "ValidationError"
    /\ served.before.count = RateLimitMax
    /\ served.at <= served.before.resetTime
    /\ served.before.resetTime > 2 * RateLimitWindow
    /\ \E c \in Clients : c # served.client /\ admitted[c] = 1

(***************************************************************************)
(* Properties of the request pipeline, continued.                          *)
(***************************************************************************)
\* the body of the request held no params: the controller's default {}
ParamsOmitted(h) ==
    body[h].params = JsObject

\* C19: a request to POST /api/query with a valid read-only sql and no
\* params passes all validation and its statement is executed with an empty
\* parameter sequence.
C19_OmittedParamsRunAsEmptySequence ==
    \A h \in Handlers :
        (/\ route[h] = "query"
         /\ ParamsOmitted(h)
         /\ validateQuery(body[h].sql).isValid) =>
            /\ \A i \in 1..Len(sent[h]) :
                   sent[h][i].kind = "user" =>
                       sent[h][i].params = JsArray(<<>>)
            /\ (pc[h] = "responded" /\ result[h].name = "ValidationError")
                   => result[h].message = "Query execution timed out"

(***************************************************************************)
(* validateQuery called again and again.                                   *)
(***************************************************************************)
\* errors at the start of a call when the array outlives the call
ErrorsAtEntry_Shared(held) ==
    held

\* const errors = []: the array of a call is new
ErrorsAtEntry(held) ==
    <<>>

\* validateQuery as one call among many: held is the array the call before
\* returned
validateQueryCall(sql, held) ==
    IF ~Truthy(sql) \/ sql.type # "string"
    THEN validateQuery(sql)
    ELSE LET errors == ErrorsAtEntry(held) \o validateQuery(sql).errors
         IN  [isValid |-> Len(errors) = 0, errors |-> errors]

\* one more call of validateQuery, by the controller or by the provider
CallValidateQueryAgain ==
    \E s \in RepeatInputs :
        /\ vfirst[s].calls < MaxCalls
        /\ vsql' = s
        /\ vop' = "validateQuery"
        /\ vout' = validateQueryCall(s, verrors)
        /\ verrors' = vout'.errors
        /\ vfirst' = [vfirst EXCEPT ![s] =
                         IF @.calls = 0
                         THEN [isValid |-> vout'.isValid,
                               errors |-> vout'.errors, calls |-> 1]
                         ELSE [@ EXCEPT !.calls = @ + 1]]
        /\ UNCHANGED <<unitVars, limiterVars, browserVars, build, requestVars,
                       checkedOut, retryAttempts>>

InitRepeat ==
    /\ RepeatAtRest
    /\ UnitAtRest
    /\ LimiterAtRest
    /\ BrowserAtRest
    /\ ValidatorAtRest
    /\ ServerAtRest
    /\ build = [provider |-> "root", connector |-> "getClient"]

NextRepeat ==
    CallValidateQueryAgain

SpecRepeat ==
    InitRepeat /\ [][NextRepeat]_vars

VocabSanitize ==
    {W_select \o <<" ">>, <<"-">>, <<";">>, <<"'">>, <<"\n">>, <<" ">>}

InitSanitizeQuery ==
    /\ \E voc \in Vocabularies \cup {VocabSanitize} : vsql \in SqlInputsOf(voc)
    /\ vop = "none"
    /\ vout = "none"
    /\ ServerAtRest
    /\ OthersAtRest
    /\ build = [provider |-> "root", connector |-> "getClient"]

NextSanitizeQuery ==
    CallSanitizeQuery

SpecSanitizeQuery ==
    InitSanitizeQuery /\ [][NextSanitizeQuery]_vars

\* C22: sanitizeQuery returns a string without '--', without ';' and without
\* leading or trailing whitespace, the empty string for an input that is
\* no string; sanitizing its result again changes nothing.
C22_SanitizeQueryCleanAndIdempotent ==
    vop = "sanitizeQuery" =>
        /\ ~Includes(vout, <<"-", "-">>)
        /\ ~Includes(vout, <<";">>)
        /\ vout # <<>> => (~IsSpace(vout[1]) /\ ~IsSpace(vout[Len(vout)]))
        /\ vsql.type # "string" => vout = <<>>
        /\ sanitizeQuery(JsString(vout)) = vout

\* a comment on each of two lines, with text left over
C22_Witness ==
    /\ vop = "sanitizeQuery"
    /\ vsql.type = "string"
    /\ Cardinality({j \in 1..Len(vsql.chars) :
                       LitAt(vsql.chars, j - 1, <<"-", "-">>)}) >= 2
    /\ \E i \in 1..Len(vsql.chars) : IsLineTerminator(vsql.chars[i])
    /\ vout # <<>>

\* s without the whitespace around it and without one ';' at its end
StripOneSemicolon(s) ==
    LET t == Trim(s)
    IN  IF t # <<>> /\ t[Len(t)] = ";"
        THEN Trim(SubSeq(t, 1, Len(t) - 1))
        ELSE t

\* C27: for every sql that validateQuery accepts, sanitizeQuery(sql) is sql
\* without surrounding whitespace and without at most one trailing ';'.
C27_SanitizeKeepsAcceptedStatement ==
    (vop = "sanitizeQuery" /\ validateQuery(vsql).isValid) =>
        vout \in {Trim(vsql.chars), StripOneSemicolon(vsql.chars)}

(***************************************************************************)
(* Properties of the rate limiter, continued.                              *)
(***************************************************************************)
\* C26: a request that the rate limiter rejects leaves the client's count
\* and resetTime as they were, and a request changes no entry but its own
\* client's; the first request of a client after its reset time is admitted.
C26_RejectionChangesNothing ==
    [][/\ \A d \in Clients :
              rateLimits'[d] # rateLimits[d] =>
                  /\ served'.client = d
                  /\ served'.outcome = "next"
       /\ (/\ served'.outcome \in {"next", "ValidationError"}
           /\ served'.before.present
           /\ served'.at > served'.before.resetTime) =>
              served'.outcome = "next"]_vars

\* a client at its limit is admitted again after the reset time
C26_Witness ==
    /\ served.outcome = "next"
    /\ served.before.count = RateLimitMax
    /\ served.at > served.before.resetTime
    /\ \E d \in Clients : d # served.client /\ rateLimits[d].count = RateLimitMax

\* C28: checkPermissions calls next() only for role admin, for a GET of
\* role user or readonly, and for POST /api/query and POST
\* /api/query/explain of role user; a missing or unknown role is rejected,
\* and role readonly never passes to the query execution handler.
C28_PermissionOnlyIfRoleAllows ==
    uop = "checkPermissions" =>
        /\ uout.kind = "next" <=>
               \/ uin.role = "admin"
               \/ uin.role \in {"user", "readonly"} /\ uin.method = M_get
               \/ /\ uin.role = "user"
                  /\ uin.method = M_post
                  /\ uin.path \in {Path_query, Path_explain}
        /\ uout.kind # "next" => uout.kind = "ValidationError"
        /\ (uin.role = "readonly" /\ uin.method = M_post) => uout.kind # "next"

C28_Witness ==
    /\ uop = "checkPermissions"
    /\ uin.role = "user"
    /\ uin.method = M_post
    /\ uin.path = Path_query \o <<"/">>
    /\ uout = Threw("Permission denied")

\* C23: in QueryModel.executeQuery the user query is sent only right after
\* SET statement_timeout, with the call's timeout value, has succeeded on the
\* connection the call acquired and still holds; when the SET fails the user
\* query is not sent and the connection is released.
C23_TimeoutSetBeforeUserQuery ==
    \A h \in Handlers :
        route[h] = "query" =>
            /\ \A i \in 1..Len(sent[h]) :
                   sent[h][i].kind = "user" =>
                       /\ i = 2
                       /\ sent[h][1] = SetTimeoutStatement(MaxExecutionTime)
                       /\ acquired[h] = 1
            /\ (sent[h] # <<>> /\ pc[h] \in {"setTimeout", "clientQuery"}) =>
                   acquired[h] = 1 /\ released[h] = 0
            /\ pc[h] = "clientQuery" => result[h] = NoResult
            /\ (/\ pc[h] \in {"modelSettled", "responded"}
                /\ Len(sent[h]) = 1) =>
                   /\ sent[h][1].kind = "set"
                   /\ released[h] = 1

\* SET statement_timeout failed: nothing else was sent, the client is back
C23_Witness ==
    \E h \in Handlers :
        /\ pc[h] = "modelSettled"
        /\ route[h] = "query"
        /\ sent[h] = <<SetTimeoutStatement(MaxExecutionTime)>>
        /\ result[h] \in DbErrors
        /\ released[h] = 1
        /\ checkedOut = 0

\* the retries that the calls in flight have started: the delays they have
\* sat through and the delay they are sitting in
RetriesInFlight ==
    [h \in Handlers |-> delays[h] + (IF pc[h] = "retryDelay" THEN 1 ELSE 0)]

\* C24: under every interleaving of concurrent DatabaseConnector.query calls
\* the shared retryAttempts counter stays between 0 and maxRetries and never
\* decreases, so that the retries of all calls together are at most
\* maxRetries over the lifetime of the connector.
C24_SharedRetryCounterBoundedMonotone ==
    /\ [](/\ retryAttempts \in 0..MaxRetries
          /\ SumOver(RetriesInFlight, Handlers) <= retryAttempts)
    /\ [][retryAttempts' >= retryAttempts]_vars

\* the counter is used up by retries of two calls in flight together
C24_Witness ==
    /\ retryAttempts = MaxRetries
    /\ \A h \in Handlers : delays[h] >= 1 /\ pc[h] # "idle"

\* every pool.query attempt completes: the pool hands a waiting attempt a
\* connection in the order of arrival, the statement settles, and the timer
\* of the retry delay fires
PoolQueryCompletes ==
    \A h \in Handlers :
        /\ SF_vars(PoolQueryConnected(h) \/ PoolQueryConnectFailed(h))
        /\ WF_vars(PoolQueryFinished(h))
        /\ WF_vars(RetryTimerFired(h))

SpecConnectorFair ==
    SpecConnector /\ PoolQueryCompletes

\* DatabaseConnector.query of h is running
InConnectorQuery(h) ==
    pc[h] \in {"poolQuery", "poolRunning", "retryDelay"}

\* what DatabaseConnector.query may settle with
ConnectorQueryOutcome(r) ==
    \/ r.success
    \/ r.name = "CustomError" /\ r.kind = "QUERY_EXECUTION_ERROR"

\* C25: every DatabaseConnector.query call terminates when each pool.query
\* attempt completes: it makes at most maxRetries + 1 attempts and then
\* returns a result or throws a CustomError of type QUERY_EXECUTION_ERROR.
C25_ConnectorQueryTerminates ==
    /\ [](\A h \in Handlers :
            /\ attempts[h] <= MaxRetries + 1
            /\ (pc[h] = "modelSettled" /\ attempts[h] >= 1)
                  => ConnectorQueryOutcome(result[h]))
    /\ \A h \in Handlers :
          InConnectorQuery(h) ~> (pc[h] = "modelSettled")

\* a call whose four attempts all failed with a connection-class error has
\* settled with the CustomError
C25_Witness ==
    \E h \in Handlers :
        /\ pc[h] = "modelSettled"
        /\ attempts[h] = MaxRetries + 1
        /\ result[h].kind = "QUERY_EXECUTION_ERROR"
        /\ ConnectionClassMessage(result[h].detail)

(***************************************************************************)
(* QueryValidator.analyzeQueryComplexity and its use by the root           *)
(* QueryProvider.executeQuery.                                             *)
(***************************************************************************)
\* \bkw\b at position p
WordAt(s, p, kw) ==
    /\ WordBoundary(s, p)
    /\ LitAt(s, p, kw)
    /\ WordBoundary(s, p + Len(kw))

\* .*\bkw\b matches from position p on
DotStarWord(s, p, kw) ==
    \E q \in p..Len(s) : AllDot(s, p, q) /\ WordAt(s, q, kw)

\* /\bselect\b(?!.*\bwhere\b)/i
MatchSelectNoWhere(s) ==
    \E p \in 0..Len(s) :
        /\ WordAt(s, p, W_select)
        /\ ~DotStarWord(s, p + Len(W_select), <<"w","h","e","r","e">>)

\* /\bselect\b.*\bcount\b.*\bfrom\b/i
MatchSelectCountFrom(s) ==
    \E p \in 0..Len(s) :
        /\ WordAt(s, p, W_select)
        /\ \E q \in (p + Len(W_select))..Len(s) :
              /\ AllDot(s, p + Len(W_select), q)
              /\ WordAt(s, q, <<"c","o","u","n","t">>)
              /\ DotStarWord(s, q + 5, W_from)

\* /\border\s+by\b(?!.*\blimit\b)/i
MatchOrderByNoLimit(s) ==
    \E p \in 0..Len(s) :
        /\ WordBoundary(s, p)
        /\ LitAt(s, p, <<"o","r","d","e","r">>)
        /\ \E q \in (p + 6)..Len(s) :
              /\ AllSpace(s, p + 5, q)
              /\ LitAt(s, q, <<"b","y">>)
              /\ WordBoundary(s, q + 2)
              /\ ~DotStarWord(s, q + 2, <<"l","i","m","i","t">>)

\* (normalizedSql.match(/\bjoin\b/gi) || []).length
joinCount(s) ==
    Cardinality({p \in 0..Len(s) : WordAt(s, p, <<"j","o","i","n">>)})

\* /\blike\b.*%.*%/i
MatchLikeWildcards(s) ==
    \E p \in 0..Len(s) :
        /\ WordAt(s, p, <<"l","i","k","e">>)
        /\ \E q \in (p + 5)..Len(s) : \E r \in (q + 1)..Len(s) :
              /\ s[q] = "%"
              /\ s[r] = "%"
              /\ AllDot(s, p + 4, r)

\* one of the slowFunctions patterns matches
slowFunctions(s) ==
    \/ MatchWord(s, <<"r","e","g","e","x","p">>)
    \/ MatchWordSpaceAlt(s, <<"s","i","m","i","l","a","r">>, {<<"t","o">>},
                         TRUE)
    \/ MatchLikeWildcards(s)
    \/ MatchWord(s, <<"a","r","r","a","y","_","a","g","g">>)
    \/ MatchWord(s, <<"s","t","r","i","n","g","_","a","g","g">>)
    \/ MatchWord(s, <<"j","s","o","n","_","a","g","g">>)

\* a warning; n is the number that the text of the warning carries
Warning(text, n) ==
    [text |-> text, n |-> n]

\* the warning pushed when the condition holds
WarnIf(cond, w) ==
    IF cond THEN <<w>> ELSE <<>>

\* QueryValidator.analyzeQueryComplexity
analyzeQueryComplexity(sql) ==
    IF ~Truthy(sql) \/ sql.type # "string"
    THEN [isComplex |-> FALSE, warnings |-> <<Warning("Empty query", 0)>>]
    ELSE LET normalizedSql == ToLowerCase(sql.chars)
             warnings ==
                 WarnIf(MatchSelectNoWhere(normalizedSql)
                            /\ ~MatchSelectCountFrom(normalizedSql),
                        Warning("no WHERE clause", 0))
                 \o WarnIf(MatchWordSpaceAlt(normalizedSql,
                                             <<"c","r","o","s","s">>,
                                             {<<"j","o","i","n">>}, TRUE),
                           Warning("CROSS JOIN", 0))
                 \o WarnIf(joinCount(normalizedSql) > 3,
                           Warning("JOINs", joinCount(normalizedSql)))
                 \o WarnIf(MatchOrderByNoLimit(normalizedSql),
                           Warning("ORDER BY without LIMIT", 0))
                 \o WarnIf(slowFunctions(normalizedSql),
                           Warning("potentially slow operations", 0))
         IN  [isComplex |-> Len(warnings) > 0, warnings |-> warnings]

\* what a call of the provider leaves behind: whether queryModel.executeQuery
\* was called and with which statement, the result or error handed to the
\* caller, and the warnings field of a returned result
ProviderCall(called, text, settled, flagged, list) ==
    [sent |-> called, statement |-> text, outcome |-> settled,
     hasWarnings |-> flagged, warnings |-> list]

\* the provider refusing to run a statement reported as complex
QueryProviderExecuteQuery_BlockComplex(sql, answer) ==
    IF ~validateQuery(sql).isValid \/ analyzeQueryComplexity(sql).isComplex
    THEN ProviderCall(FALSE, <<>>, ValidationError("Invalid query"), FALSE,
                      <<>>)
    ELSE ProviderCall(TRUE, sanitizeQuery(sql),
                      ExecuteQueryOutcome("root", answer), FALSE, <<>>)

\* QueryProvider.executeQuery of the root provider; answer is what
\* queryModel.executeQuery settles with
QueryProviderExecuteQuery(sql, answer) ==
    IF ~validateQuery(sql).isValid
    THEN ProviderCall(FALSE, <<>>, ValidationError("Invalid query"), FALSE,
                      <<>>)
    ELSE LET complexityAnalysis == analyzeQueryComplexity(sql)
             sanitizedSql == sanitizeQuery(sql)
         IN  IF answer.success /\ complexityAnalysis.isComplex
             THEN ProviderCall(TRUE, sanitizedSql, answer, TRUE,
                               complexityAnalysis.warnings)
             ELSE ProviderCall(TRUE, sanitizedSql,
                               ExecuteQueryOutcome("root", answer), FALSE,
                               <<>>)

VocabComplexity ==
    {W_select \o <<" ">>, <<"w","h","e","r","e"," ">>,
     <<"c","o","u","n","t"," ">>, W_from \o <<" ">>,
     <<"o","r","d","e","r"," ","b","y"," ">>, <<"l","i","m","i","t"," ">>}

VocabExpensive ==
    {W_select \o <<" ">>, <<"w","h","e","r","e"," ">>,
     <<"c","r","o","s","s"," ">>, <<"j","o","i","n"," ">>,
     <<"j","o","i","n"," ","j","o","i","n"," ">>,
     <<"l","i","k","e"," ","%","%">>}

VocabSlow ==
    {W_select \o <<" ">>, <<"w","h","e","r","e"," ">>,
     <<"r","e","g","e","x","p"," ">>, <<"s","i","m","i","l","a","r"," ">>,
     <<"t","o"," ">>, <<"a","r","r","a","y","_","a","g","g"," ">>}

\* what queryModel.executeQuery settles with: a result, a statement-timeout
\* cancellation or another error
ModelAnswers ==
    {Success, ErrStatementTimeout, ErrSyntax}

CallQueryProviderExecuteQuery ==
    /\ vop = "none"
    /\ vop' = "executeQuery"
    /\ \E answer \in ModelAnswers :
          vout' = QueryProviderExecuteQuery(vsql, answer)
    /\ UNCHANGED otherVars
    /\ UNCHANGED <<vsql, build, requestVars, checkedOut, retryAttempts>>

\* the texts of at most MaxWords lexemes of the vocabulary voc, and the
\* values that are not strings
AdvisoryInputsOf(voc) ==
    {JsString(Flatten(ts)) :
        ts \in UNION {[1..n -> voc] : n \in 0..MaxWords}} \cup NonStrings

InitAdvisory ==
    /\ \E voc \in {VocabComplexity, VocabExpensive, VocabSlow,
                   VocabStructure} :
          vsql \in AdvisoryInputsOf(voc)
    /\ vop = "none"
    /\ vout = "none"
    /\ ServerAtRest
    /\ OthersAtRest
    /\ build = [provider |-> "root", connector |-> "getClient"]

NextAdvisory ==
    CallQueryProviderExecuteQuery

SpecAdvisory ==
    InitAdvisory /\ [][NextAdvisory]_vars

\* C21: the complexity report is advisory only: whether the statement is
\* sent is decided by validation alone, the statement sent is the sanitized
\* text whatever the report says, and the report only adds a warnings field
\* to an otherwise unchanged successful result.
C21_ComplexityReportIsAdvisory ==
    vop = "executeQuery" =>
        /\ vout.sent = validateQuery(vsql).isValid
        /\ vout.sent => vout.statement = sanitizeQuery(vsql)
        /\ (vout.sent /\ vout.outcome.success) =>
              /\ vout.outcome = Success
              /\ LET report == analyzeQueryComplexity(vsql)
                 IN  /\ vout.hasWarnings = report.isComplex
                     /\ vout.hasWarnings => vout.warnings = report.warnings
        /\ ~(vout.sent /\ vout.outcome.success) => ~vout.hasWarnings

\* a statement reported as complex for two reasons was sent and its result
\* returned with the warnings
C21_Witness ==
    /\ vop = "executeQuery"
    /\ vout.sent
    /\ vout.outcome.success
    /\ vout.hasWarnings
    /\ Len(vout.warnings) >= 2

(***************************************************************************)
(* BrowserController: launch, close, navigate and retryOperation.          *)
(***************************************************************************)
\* this.retryAttempts of the BrowserController
BrowserRetryAttempts == 3

\* this.retryDelay of the BrowserController, in milliseconds
BrowserRetryDelay == 1000

\* everything that is not state of the BrowserController
serverSideVars ==
    <<validatorVars, build, requestVars, checkedOut, retryAttempts,
      unitVars, limiterVars, repeatVars>>

\* the errors the operation can reject with and the values it can return
OperationErrors ==
    {"e1", "e2"}

OperationValues ==
    {"v1", "v2"}

\* the call of caller c moves on to label
CallAt(c, o, label) ==
    calls' = [calls EXCEPT ![c] = [op |-> o, pc |-> label,
                                   outcome |-> "none"]]

\* the call of caller c is over with outcome out
CallOver(c, o, out) ==
    calls' = [calls EXCEPT ![c] = [op |-> o, pc |-> "done", outcome |-> out]]

\* BrowserController.launch up to the first await
Launch(c) ==
    /\ calls[c].pc = "idle"
    /\ IF controller.browser # "null"
       THEN CallOver(c, "launch", "Browser is already running")
       ELSE CallAt(c, "launch", "chromiumLaunch")
    /\ UNCHANGED <<controller, retryOp, serverSideVars>>

\* launch: chromium.launch settles
ChromiumLaunchSettled(c) ==
    /\ calls[c].pc = "chromiumLaunch"
    /\ \/ /\ controller' = [controller EXCEPT !.browser = "object"]
          /\ CallAt(c, "launch", "newContext")
       \/ /\ CallOver(c, "launch", "Failed to launch browser")
          /\ UNCHANGED controller
    /\ UNCHANGED <<retryOp, serverSideVars>>

\* launch: browser.newContext settles
NewContextSettled(c) ==
    /\ calls[c].pc = "newContext"
    /\ \/ /\ controller' = [controller EXCEPT !.context = "object"]
          /\ CallAt(c, "launch", "newPage")
       \/ /\ CallOver(c, "launch", "Failed to launch browser")
          /\ UNCHANGED controller
    /\ UNCHANGED <<retryOp, serverSideVars>>

\* launch: context.newPage settles
NewPageSettled(c) ==
    /\ calls[c].pc = "newPage"
    /\ \/ /\ controller' = [controller EXCEPT !.page = "object"]
          /\ CallOver(c, "launch", "true")
       \/ /\ CallOver(c, "launch", "Failed to launch browser")
          /\ UNCHANGED controller
    /\ UNCHANGED <<retryOp, serverSideVars>>

\* BrowserController.close up to the await; without a browser the try block
\* does nothing and finally resets isClosing in the same step
Close(c) ==
    /\ calls[c].pc = "idle"
    /\ IF controller.isClosing
       THEN /\ CallOver(c, "close", "undefined")
            /\ UNCHANGED controller
       ELSE IF controller.browser # "null"
       THEN /\ controller' = [controller EXCEPT !.isClosing = TRUE]
            /\ CallAt(c, "close", "browserClose")
       ELSE /\ CallOver(c, "close", "undefined")
            /\ UNCHANGED controller
    /\ UNCHANGED <<retryOp, serverSideVars>>

\* close: browser.close settles
BrowserCloseSettled(c) ==
    /\ calls[c].pc = "browserClose"
    /\ \/ /\ controller' = NewController
          /\ CallOver(c, "close", "undefined")
       \/ /\ controller' = [controller EXCEPT !.isClosing = FALSE]
          /\ CallOver(c, "close", "Failed to close browser")
    /\ UNCHANGED <<retryOp, serverSideVars>>

\* the caller has seen how its call ended
CallReturned(c) ==
    /\ calls[c].pc = "done"
    /\ calls' = [calls EXCEPT ![c] = NoCall]
    /\ UNCHANGED <<controller, retryOp, serverSideVars>>

\* retryOperation waiting after every failed attempt
ShouldWait_AfterEveryAttempt(attempt) ==
    attempt <= BrowserRetryAttempts

\* retryOperation: attempt < this.retryAttempts
ShouldWait(attempt) ==
    attempt < BrowserRetryAttempts

\* BrowserController.navigate up to the first await: the checks of the page
\* and of the URL, then retryOperation invoking the operation for attempt 1
Navigate(urlAccepted) ==
    /\ retryOp.pc = "idle"
    /\ IF controller.page = "null"
       THEN retryOp' = [NoRetry EXCEPT !.pc = "threw",
                                       !.outcome = "Browser not launched"]
       ELSE IF ~urlAccepted
       THEN retryOp' = [NoRetry EXCEPT !.pc = "threw",
                                       !.outcome = "Invalid URL format"]
       ELSE retryOp' = [NoRetry EXCEPT !.pc = "operation", !.attempt = 1,
                                       !.invocations = 1]
    /\ UNCHANGED <<controller, calls, serverSideVars>>

\* retryOperation: the operation of the current attempt settles
OperationSettled ==
    /\ retryOp.pc = "operation"
    /\ \/ \E v \in OperationValues :
             retryOp' = [retryOp EXCEPT !.pc = "returned",
                                        !.outcome = "returned",
                                        !.value = v]
       \/ \E e \in OperationErrors :
             IF ShouldWait(retryOp.attempt)
             THEN retryOp' =
                      [retryOp EXCEPT
                          !.pc = "delay",
                          !.errors = Append(@, e),
                          !.waits = Append(@, BrowserRetryDelay
                                                  * retryOp.attempt)]
             ELSE IF retryOp.attempt + 1 <= BrowserRetryAttempts
             THEN retryOp' = [retryOp EXCEPT !.pc = "operation",
                                             !.errors = Append(@, e),
                                             !.attempt = @ + 1,
                                             !.invocations = @ + 1]
             ELSE retryOp' = [retryOp EXCEPT !.pc = "threw",
                                             !.errors = Append(@, e),
                                             !.outcome = "threw",
                                             !.value = e]
    /\ UNCHANGED <<controller, calls, serverSideVars>>

\* retryOperation: the delay is over, the loop goes on to the next attempt
\* or, with no attempt left, to throw lastError
DelayOver ==
    /\ retryOp.pc = "delay"
    /\ IF retryOp.attempt + 1 <= BrowserRetryAttempts
       THEN retryOp' = [retryOp EXCEPT !.pc = "operation",
                                       !.attempt = @ + 1,
                                       !.invocations = @ + 1]
       ELSE retryOp' = [retryOp EXCEPT !.pc = "threw",
                                       !.outcome = "threw",
                                       !.value =
                                           retryOp.errors[Len(retryOp.errors)]]
    /\ UNCHANGED <<controller, calls, serverSideVars>>

\* navigate is over: its caller has the result or the error
NavigateOver ==
    /\ retryOp.pc \in {"returned", "threw"}
    /\ retryOp' = NoRetry
    /\ UNCHANGED <<controller, calls, serverSideVars>>

InitBrowser ==
    /\ BrowserAtRest
    /\ ServerAtRest
    /\ ValidatorAtRest
    /\ UnitAtRest
    /\ LimiterAtRest
    /\ RepeatAtRest
    /\ build = [provider |-> "root", connector |-> "getClient"]

NextBrowser ==
    \/ \E c \in Callers :
          \/ Launch(c)
          \/ ChromiumLaunchSettled(c)
          \/ NewContextSettled(c)
          \/ NewPageSettled(c)
          \/ Close(c)
          \/ BrowserCloseSettled(c)
          \/ CallReturned(c)
    \/ \E urlAccepted \in BOOLEAN : Navigate(urlAccepted)
    \/ OperationSettled
    \/ DelayOver
    \/ NavigateOver

SpecBrowser ==
    InitBrowser /\ [][NextBrowser]_vars

\* C29: retryOperation invokes the operation at most retryAttempts times,
\* stops at and returns the result of the first attempt that succeeds, waits
\* between two consecutive attempts only, for retryDelay * attempt, and when
\* all attempts fail throws the error of the last attempt.
C29_RetryOperationBounded ==
    /\ retryOp.invocations <= BrowserRetryAttempts
    /\ Len(retryOp.waits) <= BrowserRetryAttempts - 1
    /\ \A k \in 1..Len(retryOp.waits) :
          retryOp.waits[k] = BrowserRetryDelay * k
    /\ retryOp.pc = "operation" =>
          /\ retryOp.invocations = Len(retryOp.errors) + 1
          /\ Len(retryOp.waits) = Len(retryOp.errors)
    /\ retryOp.outcome = "returned" =>
          /\ retryOp.invocations = Len(retryOp.errors) + 1
          /\ Len(retryOp.waits) = Len(retryOp.errors)
          /\ retryOp.value \in OperationValues
    /\ retryOp.outcome = "threw" =>
          /\ retryOp.invocations = BrowserRetryAttempts
          /\ Len(retryOp.errors) = BrowserRetryAttempts
          /\ Len(retryOp.waits) = BrowserRetryAttempts - 1
          /\ retryOp.value = retryOp.errors[BrowserRetryAttempts]

\* three attempts failed, the last with another error than the first two,
\* and that error was thrown after two waits
C29_Witness ==
    /\ retryOp.outcome = "threw"
    /\ retryOp.errors = <<"e1", "e1", "e2">>
    /\ retryOp.value = "e2"
    /\ retryOp.waits = <<BrowserRetryDelay, 2 * BrowserRetryDelay>>

\* no launch or close call is in progress
NoCallInProgress ==
    \A c \in Callers : calls[c].pc \in {"idle", "done"}

\* C30: whenever no launch or close call is in progress, browser, context
\* and page are all set or all null, and a failed launch leaves the
\* controller not running.
C30_FieldsAllSetOrAllNull ==
    NoCallInProgress =>
        /\ \/ /\ controller.browser = "null"
              /\ controller.context = "null"
              /\ controller.page = "null"
           \/ /\ controller.browser # "null"
              /\ controller.context # "null"
              /\ controller.page # "null"
        /\ \A c \in Callers :
              calls[c].outcome = "Failed to launch browser"
                  => controller.browser = "null"

====
